---- MODULE Spec2Model ----
(***************************************************************************)
(* Paper-trading core of the Dhaan platform: the virtual broker            *)
(* (PaperTradingBrokerProvider), the market scanner and its manager.       *)
(*                                                                         *)
(* Money is Python Decimal in the source.  Here a Decimal is an integer    *)
(* count of 1/Scale rupees.  Products with the decimal literals of the     *)
(* source (0.20, 0.001) are exact in Decimal; an operation is taken only   *)
(* for operands whose products are exact at Scale (Representable), so the  *)
(* model never rounds where the source does not.  Decimal division rounds  *)
(* half-even at the context precision; DecDiv rounds half-even at Scale.   *)
(***************************************************************************)
EXTENDS Integers, Sequences, FiniteSets, TLC

\* ------------------------------------------------------------------ bounds
MaxOrders == 2          \* order objects created by callers
MaxFills == 3           \* executed fills kept in the order history
MaxCalls == 1           \* place_order calls of each concurrent caller
MaxQty == 2             \* order quantities are 1..MaxQty
PaperBalance == 45      \* configured paper_trading_balance, in rupees
MaxThreads == 2         \* scan threads the manager starts
MaxRequests == 3        \* start and stop requests the manager serves
MaxTasks == 2           \* _scan_loop tasks the scanner creates
MaxLoopCalls == 3       \* start_scanning and stop_scanning calls
UniverseSize == 3       \* len(stock_universe)
max_concurrent_scans == 2   \* configured market_scanner.max_concurrent_scans
MaxOpps == 5            \* opportunities in a list given to the sentiment
max_position_size == 1000   \* configured risk.max_position_size, in shares
max_open_positions == 2     \* configured risk.max_open_positions
max_daily_loss == 2         \* configured risk.max_daily_loss, in rupees
position_risk_percent == 2  \* configured risk.position_risk_percent
MaxDailyTrades == 3         \* update_daily_tracking calls in a day
manager_max_position_size == 40   \* the orchestrator's max_position_size,
                                  \* in rupees, below the paper balance
MaxRuns == 3            \* process_market_opportunities calls
MaxResultLen == 2       \* opportunities in a published ScanResult
MaxScans == 1           \* ScanResults the scan loop publishes
MaxErrors == 9          \* rate-limit errors the market-data provider handles

\* --------------------------------------------------------------- constants
Scale == 100000         \* fixed-point units per rupee
MarginRatePct == 20     \* margin_rate = Decimal('0.20')
Commission == 20        \* paper_trading_commission, in rupees
DefaultSlippage == 1    \* paper_trading_slippage = 0.001, per mille
JoinSeconds == 5        \* scan_thread.join(timeout=5)
SleepSeconds == 300     \* await asyncio.sleep(300) between two scans
scan_interval_seconds == 300    \* MarketScanner.__init__, the default
RetrySeconds == 60      \* _scan_loop: await asyncio.sleep(60) after an error
MinConfidence == 7      \* min_confidence_score = 0.7, in tenths
BullishAbove == 6       \* buy_ratio > 0.6, in tenths
BearishBelow == 4       \* buy_ratio < 0.4, in tenths
MaxBackoff == 5         \* min(5.0, ...) in _handle_rate_limit_error
BackoffStepTenths == 5  \* consecutive_429_errors * 0.5, in tenths
DecayPct == 90          \* backoff_multiplier * 0.9, in percent
max_requests_per_minute == 30   \* DhanMarketDataProvider.__init__
MinuteSeconds == 60     \* time_diff >= 60 in _rate_limit_check
HardMinConfidence == 7  \* opportunity.confidence_score < 0.7, in tenths
HardMinRiskReward == 15 \* opportunity.risk_reward_ratio < 1.5, in tenths
max_positions_per_strategy == 3
RiskPerTradePct == 2    \* risk_per_trade = Decimal('0.02'), in percent
SimulatedMovePct == 2   \* trade.entry_price * Decimal('1.02')
ExitMovePct == 5        \* a move of more than Decimal('0.05')

Symbols == {"RELIANCE"}
Prices == {100, 125}                       \* caller prices, in rupees
Quantities == 1..MaxQty
StepPrices == {100}                        \* prices of the concurrent callers
SlippageFactors == {0, DefaultSlippage}    \* configurations of the broker
Sides == {"BUY", "SELL"}
OrderTypes == {"MARKET", "LIMIT"}
None == 0                                  \* Python None for ids and prices

\* ----------------------------------------------------------- Decimal model
Abs(x) == IF x < 0 THEN -x ELSE x

\* x * num / den is exact at Scale
ExactRatio(x, num, den) == (x * num) % den = 0

\* Decimal division n / d (n >= 0, d > 0), rounded half-even
DecDiv(n, d) ==
    LET q == n \div d
        r == n % d
    IN  IF 2 * r < d THEN q
        ELSE IF 2 * r > d THEN q + 1
        ELSE IF q % 2 = 0 THEN q ELSE q + 1

\* ------------------------------------------------------------ broker state
VARIABLES
    slippage_factor,        \* config.trading.paper_trading_slippage, per mille
    virtual_balance,
    available_margin,
    used_margin,
    virtual_positions,      \* symbol -> VirtualPosition, partial
    virtual_orders,         \* virtual order id -> order object, partial
    order_history,          \* list of order objects (references)
    orders,                 \* the Order objects callers have created
    uuid_count,             \* virtual order ids issued so far
    total_trades,
    winning_trades,
    losing_trades,
    total_commission_paid,
    max_drawdown,
    peak_portfolio_value,
    lastOp                  \* the last call: entry point, result, the order
                            \* object it was given and that object's fields
                            \* at the time of the call

brokerVars == <<slippage_factor, virtual_balance, available_margin, used_margin,
                virtual_positions, virtual_orders, order_history, orders,
                uuid_count, total_trades, winning_trades, losing_trades,
                total_commission_paid, max_drawdown, peak_portfolio_value,
                lastOp>>

\* the performance tracking that only get_account_balance and
\* reset_paper_trading write
trackVars == <<max_drawdown, peak_portfolio_value>>

\* ---------------------------------------- place_order, statement by statement
\* Flask serves requests on threads (main.py: threaded=True) and the broker
\* takes no lock: a caller is the thread of one request that reaches
\* place_order.
Callers == {"http", "orchestrator"}

VARIABLES
    pc,         \* caller -> the statement of place_order it is about to run
    loc,        \* caller -> its local variables
    calls       \* caller -> place_order calls it has started

stepVars == <<pc, loc, calls>>

\* ------------------------------------------- MarketScannerManager (threads)
VARIABLES
    manager_is_scanning,    \* MarketScannerManager.is_scanning
    scan_thread,            \* MarketScannerManager.scan_thread, None or a thread
    thread_pc,              \* thread -> where it is in _async_scanning_loop
    sleep_left,             \* thread -> seconds left of its asyncio.sleep
    handler_pc,             \* request thread -> where it is in start/stop
    join_thread,            \* request thread -> the thread it joins
    join_left,              \* request thread -> seconds left of its join
    requests                \* start and stop requests served so far

managerVars == <<manager_is_scanning, scan_thread, thread_pc, sleep_left,
                 handler_pc, join_thread, join_left, requests>>

\* ------------------------------------------- MarketScanner (asyncio tasks)
VARIABLES
    scanner_is_scanning,    \* MarketScanner.is_scanning
    scan_task,              \* MarketScanner.scan_task, None or a task
    tasks,                  \* task -> the state of its _scan_loop coroutine
    ready,                  \* the event loop's queue of ready callbacks
    stop_pc,                \* where the caller of stop_scanning is
    stop_awaits,            \* the task stop_scanning awaits
    loop_calls              \* start_scanning and stop_scanning calls so far

scannerVars == <<scanner_is_scanning, scan_task, tasks, ready, stop_pc,
                 stop_awaits, loop_calls>>

\* ------------------------------------------- MarketScanner (scan results)
VARIABLES
    universe,               \* MarketScanner.stock_universe as configured
    scan_pc,                \* where _perform_market_scan is
    pending,                \* the symbols of the cycle still to be scanned
    provided,               \* what the providers answered, per scanned symbol
    opportunities,          \* the opportunities list of the cycle
    current_scan_results,   \* MarketScanner.current_scan_results
    sentiments              \* results of the two _calculate_market_sentiment

dataVars == <<universe, scan_pc, pending, provided, opportunities,
              current_scan_results, sentiments>>

\* ------------------------------------------------------ risk manager state
VARIABLES
    daily_pnl,              \* in rupees
    daily_trades,
    lastRisk                \* the last risk manager call and its result

riskVars == <<daily_pnl, daily_trades, lastRisk>>

\* ------------------------------------------------------ orchestrator state
Runners == {"loop", "http"}     \* the processing loop and a request thread

VARIABLES
    strategy_performances,  \* strategy id -> counters
    active_trades,          \* trade id -> StrategyTrade, partial
    run,                    \* runner -> its process_market_opportunities call
    runs,                   \* calls started so far
    ordered,                \* the opportunities of the published ScanResult,
                            \* by position, that have produced an order
    last_scan_time          \* the scan that published it, 0 for None

orchVars == <<strategy_performances, active_trades, run, runs, ordered,
              last_scan_time>>

\* --------------------------------- rate limiter and scan-loop cycle state
VARIABLES
    limiter,    \* DhanMarketDataProvider: request_count,
                \* consecutive_429_errors, backoff_multiplier at Scale,
                \* where its current call is and how the last one ended
    loops       \* loop -> where the scanning loop is in its cycle

auxVars == <<limiter, loops>>

scanVars == <<managerVars, scannerVars, dataVars, riskVars, orchVars,
              auxVars>>

vars == <<brokerVars, stepVars, scanVars>>

initial_balance == PaperBalance * Scale
commission_per_trade == Commission * Scale

\* Order(...) as its callers construct it: status PENDING, no broker id
NewOrder(sym, side, type, qty, price) ==
    [symbol |-> sym, side |-> side, order_type |-> type, quantity |-> qty,
     price |-> price, status |-> "PENDING", broker_order_id |-> None,
     executed_price |-> None, executed_quantity |-> 0]

\* no order: the argument slot of a call that takes or reaches none
NoOrder == NewOrder("", "", "", 0, 0)

\* VirtualPosition.__init__
VirtualPosition(sym, qty, price, side) ==
    [symbol |-> sym, quantity |-> qty, entry_price |-> price, side |-> side,
     unrealized_pnl |-> 0, realized_pnl |-> 0]

\* _calculate_required_margin: price * quantity * Decimal('0.20')
_calculate_required_margin(price, quantity) ==
    (price * quantity * MarginRatePct) \div 100

\* _apply_slippage: price +/- price * Decimal(str(slippage_factor))
_apply_slippage(price, side) ==
    LET slippage_amount == (price * slippage_factor) \div 1000
    IN  IF side = "BUY" THEN price + slippage_amount
                        ELSE price - slippage_amount

\* the price place_order leaves in the order (lines 104-106)
PlacedPrice(o) ==
    IF o.order_type = "MARKET" THEN _apply_slippage(o.price, o.side)
                               ELSE o.price

\* every Decimal product place_order forms for this order is exact at Scale
Representable(o) ==
    /\ ExactRatio(o.price * o.quantity, MarginRatePct, 100)
    /\ o.order_type = "MARKET" => ExactRatio(o.price, slippage_factor, 1000)
    /\ ExactRatio(PlacedPrice(o) * o.quantity, MarginRatePct, 100)

\* dict helpers
Put(f, k, v) == (k :> v) @@ f
Del(f, k) == [x \in (DOMAIN f) \ {k} |-> f[x]]

\* place_order lines 111-113: reserve margin
ReserveMargin(avail, used, required_margin) ==
    [available_margin |-> avail - required_margin,
     used_margin |-> used + required_margin]

\* mutant: the release credits used_margin but not available_margin
ReleaseMargin_UsedOnly(avail, used, required_margin) ==
    [available_margin |-> avail,
     used_margin |-> used - required_margin]

\* _execute_virtual_order lines 499-502: update margin
ReleaseMargin(avail, used, required_margin) ==
    [available_margin |-> avail + required_margin,
     used_margin |-> used - required_margin]

\* mutant: a SELL credits the gross order value, without the commission
BalanceAfterFill_SellGross(balance, o, commission) ==
    LET order_value == o.price * o.quantity
    IN  IF o.side = "BUY" THEN balance - (order_value + commission)
                          ELSE balance + order_value

\* mutant: a BUY pays no commission out of the balance
BalanceAfterFill_BuyGross(balance, o, commission) ==
    LET order_value == o.price * o.quantity
    IN  IF o.side = "BUY" THEN balance - order_value
                          ELSE balance + (order_value - commission)

\* _execute_virtual_order lines 453-476: the cash leg of a fill
BalanceAfterFill(balance, o, commission) ==
    LET order_value == o.price * o.quantity
    IN  IF o.side = "BUY" THEN balance - (order_value + commission)
                          ELSE balance + (order_value - commission)

\* mutant: adding to a position overwrites the entry price with the fill price
BuyFill_LastPrice(positions, o) ==
    IF o.symbol \in DOMAIN positions
    THEN [positions EXCEPT ![o.symbol] =
             [@ EXCEPT !.quantity = @ + o.quantity, !.entry_price = o.price]]
    ELSE Put(positions, o.symbol,
             VirtualPosition(o.symbol, o.quantity, o.price, o.side))

\* _execute_virtual_order lines 458-471: create or update position on BUY
BuyFill(positions, o) ==
    IF o.symbol \in DOMAIN positions
    THEN LET existing_pos == positions[o.symbol]
             total_quantity == existing_pos.quantity + o.quantity
             weighted_avg_price ==
                 DecDiv(existing_pos.entry_price * existing_pos.quantity
                        + o.price * o.quantity, total_quantity)
         IN  [positions EXCEPT ![o.symbol] =
                 [@ EXCEPT !.quantity = total_quantity,
                           !.entry_price = weighted_avg_price]]
    ELSE Put(positions, o.symbol,
             VirtualPosition(o.symbol, o.quantity, o.price, o.side))

\* mutant: a SELL of exactly the open quantity is treated as a partial close
ClosesPosition_Strict(existing_pos, o) == existing_pos.quantity < o.quantity

\* _execute_virtual_order lines 482-484: does this SELL close the position
ClosesPosition(existing_pos, o) == existing_pos.quantity <= o.quantity

\* _execute_virtual_order line 484: P&L of a full close
ClosePnl(existing_pos, o, commission) ==
    (o.price - existing_pos.entry_price) * existing_pos.quantity - commission

\* mutant: a partial close realizes the gross P&L, without the commission
SellFill_PartialGross(positions, o, commission) ==
    IF o.symbol \in DOMAIN positions
    THEN LET existing_pos == positions[o.symbol]
         IN  IF ClosesPosition(existing_pos, o)
             THEN Del(positions, o.symbol)
             ELSE LET partial_pnl ==
                          (o.price - existing_pos.entry_price) * o.quantity
                  IN  [positions EXCEPT ![o.symbol] =
                          [@ EXCEPT !.quantity = @ - o.quantity,
                                    !.realized_pnl = @ + partial_pnl]]
    ELSE positions

\* _execute_virtual_order lines 478-497: update or close position on SELL
SellFill(positions, o, commission) ==
    IF o.symbol \in DOMAIN positions
    THEN LET existing_pos == positions[o.symbol]
         IN  IF ClosesPosition(existing_pos, o)
             THEN Del(positions, o.symbol)
             ELSE LET partial_pnl ==
                          (o.price - existing_pos.entry_price) * o.quantity
                          - commission
                  IN  [positions EXCEPT ![o.symbol] =
                          [@ EXCEPT !.quantity = @ - o.quantity,
                                    !.realized_pnl = @ + partial_pnl]]
    ELSE positions

\* mutant: a SELL that closes no position is booked as a losing trade
TradeOutcome_UnmatchedSellLoses(positions, o, commission) ==
    IF o.side = "SELL" /\ o.symbol \in DOMAIN positions
       /\ ClosesPosition(positions[o.symbol], o)
    THEN IF ClosePnl(positions[o.symbol], o, commission) > 0
         THEN "win" ELSE "loss"
    ELSE IF o.side = "SELL" THEN "loss" ELSE "none"

\* _execute_virtual_order lines 487-490: "win", "loss" or "none"
TradeOutcome(positions, o, commission) ==
    IF o.side = "SELL" /\ o.symbol \in DOMAIN positions
       /\ ClosesPosition(positions[o.symbol], o)
    THEN IF ClosePnl(positions[o.symbol], o, commission) > 0
         THEN "win" ELSE "loss"
    ELSE "none"

\* mutant: the execution leaves the order SUBMITTED
ExecutedOrder_StaysSubmitted(o) ==
    [o EXCEPT !.executed_price = o.price, !.executed_quantity = o.quantity]

\* _execute_virtual_order lines 440-444: the order object once executed
ExecutedOrder(o) ==
    [o EXCEPT !.status = "EXECUTED", !.executed_price = o.price,
              !.executed_quantity = o.quantity]

\* place_order lines 99-106: the order object once submitted
SubmittedOrder(o, virtual_order_id) ==
    [o EXCEPT !.broker_order_id = virtual_order_id, !.status = "SUBMITTED",
              !.price = PlacedPrice(o)]

\* mutant: the margin check forgets the quantity
InsufficientMargin_PerUnit(o, avail) ==
    _calculate_required_margin(o.price, 1) > avail

\* place_order lines 93-94: the margin check
InsufficientMargin(o, avail) ==
    _calculate_required_margin(o.price, o.quantity) > avail

\* place_order(order), with _schedule_order_execution and
\* _execute_virtual_order, which it calls before it returns.  objs is the
\* object heap with the caller's order at index i; op, ok and fail name the
\* entry point and what it reports.
place_order(i, objs, op, ok, fail) ==
    LET o == objs[i]
        required_margin == _calculate_required_margin(o.price, o.quantity)
    IN  IF InsufficientMargin(o, available_margin)
        THEN /\ orders' = objs
             /\ lastOp' = [op |-> op, result |-> fail, order |-> i, arg |-> o]
             /\ UNCHANGED <<slippage_factor, virtual_balance, available_margin,
                            used_margin, virtual_positions, virtual_orders,
                            order_history, uuid_count, total_trades,
                            winning_trades, losing_trades,
                            total_commission_paid>>
        ELSE LET virtual_order_id == uuid_count + 1
                 submitted == SubmittedOrder(o, virtual_order_id)
                 reserved == ReserveMargin(available_margin, used_margin,
                                           required_margin)
                 executed == ExecutedOrder(submitted)
                 commission == commission_per_trade
                 outcome == TradeOutcome(virtual_positions, executed, commission)
                 released == ReleaseMargin(reserved.available_margin,
                                 reserved.used_margin,
                                 _calculate_required_margin(executed.price,
                                                            executed.quantity))
             IN  /\ uuid_count' = virtual_order_id
                 /\ orders' = [objs EXCEPT ![i] = executed]
                 /\ total_commission_paid' = total_commission_paid + commission
                 /\ virtual_balance' =
                        BalanceAfterFill(virtual_balance, executed, commission)
                 /\ virtual_positions' =
                        IF executed.side = "BUY"
                        THEN BuyFill(virtual_positions, executed)
                        ELSE SellFill(virtual_positions, executed, commission)
                 /\ winning_trades' =
                        winning_trades + (IF outcome = "win" THEN 1 ELSE 0)
                 /\ losing_trades' =
                        losing_trades + (IF outcome = "loss" THEN 1 ELSE 0)
                 /\ available_margin' = released.available_margin
                 /\ used_margin' = released.used_margin
                 /\ total_trades' = total_trades + 1
                 /\ order_history' = Append(order_history, i)
                 /\ virtual_orders' =
                        Del(Put(virtual_orders, virtual_order_id, i),
                            virtual_order_id)
                 /\ lastOp' = [op |-> op, result |-> ok, order |-> i, arg |-> o]
                 /\ UNCHANGED slippage_factor

\* a caller builds a new Order and passes it to place_order
PlaceNew ==
    \E sym \in Symbols, side \in Sides, type \in OrderTypes,
       qty \in Quantities, p \in Prices :
        LET o == NewOrder(sym, side, type, qty, p * Scale)
        IN  /\ Len(orders) < MaxOrders
            /\ Len(order_history) < MaxFills
            /\ Representable(o)
            /\ place_order(Len(orders) + 1, Append(orders, o), "place_order",
                           "placed", "InsufficientMarginException")
            /\ UNCHANGED <<stepVars, scanVars, trackVars>>

\* a caller passes an Order object that was passed to place_order before
PlaceAgain ==
    \E i \in 1..Len(orders) :
        /\ Len(order_history) < MaxFills
        /\ Representable(orders[i])
        /\ place_order(i, orders, "place_order",
                       "placed", "InsufficientMarginException")
        /\ UNCHANGED <<stepVars, scanVars, trackVars>>

\* mutant: every order in the book can be cancelled
Cancellable_Always(order) == TRUE

\* cancel_order line 149: only SUBMITTED and PENDING orders can be cancelled
Cancellable(order) == order.status \in {"SUBMITTED", "PENDING"}

\* cancel_order(order_id)
cancel_order(order_id) ==
    IF order_id \notin DOMAIN virtual_orders
    THEN /\ lastOp' = [op |-> "cancel_order", result |-> "False",
                       order |-> None, arg |-> NoOrder]
         /\ UNCHANGED <<slippage_factor, virtual_balance, available_margin,
                        used_margin, virtual_positions, virtual_orders,
                        order_history, orders, uuid_count, total_trades,
                        winning_trades, losing_trades, total_commission_paid>>
    ELSE LET i == virtual_orders[order_id]
             order == orders[i]
         IN  IF ~Cancellable(order)
             THEN /\ lastOp' = [op |-> "cancel_order", result |-> "False",
                                order |-> i, arg |-> order]
                  /\ UNCHANGED <<slippage_factor, virtual_balance,
                                 available_margin, used_margin,
                                 virtual_positions, virtual_orders,
                                 order_history, orders, uuid_count,
                                 total_trades, winning_trades, losing_trades,
                                 total_commission_paid>>
             ELSE LET released ==
                          ReleaseMargin(available_margin, used_margin,
                              _calculate_required_margin(order.price,
                                                         order.quantity))
                  IN  /\ orders' = [orders EXCEPT ![i].status = "CANCELLED"]
                      /\ available_margin' = released.available_margin
                      /\ used_margin' = released.used_margin
                      /\ order_history' = Append(order_history, i)
                      /\ virtual_orders' = Del(virtual_orders, order_id)
                      /\ lastOp' = [op |-> "cancel_order", result |-> "True",
                                    order |-> i, arg |-> order]
                      /\ UNCHANGED <<slippage_factor, virtual_balance,
                                     virtual_positions, uuid_count,
                                     total_trades, winning_trades,
                                     losing_trades, total_commission_paid>>

\* a caller cancels an id place_order returned, or one it never returned
CancelOrder ==
    /\ \E order_id \in 1..(uuid_count + 1) : cancel_order(order_id)
    /\ UNCHANGED <<stepVars, scanVars, trackVars>>

\* square_off_position(symbol, quantity, side)
square_off_position(symbol, quantity, side) ==
    IF symbol \notin DOMAIN virtual_positions
    THEN /\ lastOp' = [op |-> "square_off_position", result |-> "False",
                       order |-> None, arg |-> NoOrder]
         /\ UNCHANGED <<slippage_factor, virtual_balance, available_margin,
                        used_margin, virtual_positions, virtual_orders,
                        order_history, orders, uuid_count, total_trades,
                        winning_trades, losing_trades, total_commission_paid>>
    ELSE LET position == virtual_positions[symbol]
             close_side == IF position.side = "BUY" THEN "SELL" ELSE "BUY"
             order == NewOrder(symbol, close_side, "MARKET", quantity,
                               position.entry_price)
         IN  IF side # close_side
             THEN /\ lastOp' = [op |-> "square_off_position",
                                result |-> "False", order |-> None,
                                arg |-> NoOrder]
                  /\ UNCHANGED <<slippage_factor, virtual_balance,
                                 available_margin, used_margin,
                                 virtual_positions, virtual_orders,
                                 order_history, orders, uuid_count,
                                 total_trades, winning_trades, losing_trades,
                                 total_commission_paid>>
             ELSE /\ Len(orders) < MaxOrders
                  /\ Len(order_history) < MaxFills
                  /\ Representable(order)
                  /\ place_order(Len(orders) + 1, Append(orders, order),
                                 "square_off_position", "True", "False")

SquareOff ==
    \E symbol \in Symbols, quantity \in Quantities, side \in Sides :
        /\ square_off_position(symbol, quantity, side)
        /\ UNCHANGED <<stepVars, scanVars, trackVars>>

\* ------------------------------------------------------------------------
\* The read operations and reset_paper_trading.  Their results go to lastOp;
\* float() of a Decimal is one-to-one on the amounts that occur here, so a
\* result field holds the amount itself.

RECURSIVE SumUnrealized(_, _)
SumUnrealized(positions, syms) ==
    IF syms = {} THEN 0
    ELSE LET sym == CHOOSE x \in syms : TRUE
         IN  positions[sym].unrealized_pnl
                 + SumUnrealized(positions, syms \ {sym})

\* _calculate_unrealized_pnl: the sum of position.unrealized_pnl
_calculate_unrealized_pnl ==
    SumUnrealized(virtual_positions, DOMAIN virtual_positions)

Max(a, b) == IF a >= b THEN a ELSE b

\* get_account_balance lines 293-297: the peak it leaves behind
PeakAfterRead ==
    Max(peak_portfolio_value, virtual_balance + _calculate_unrealized_pnl)

\* get_account_balance lines 299-301: the max drawdown it leaves behind
DrawdownAfterRead ==
    Max(max_drawdown,
        PeakAfterRead - (virtual_balance + _calculate_unrealized_pnl))

\* get_account_balance
GetAccountBalance ==
    /\ peak_portfolio_value' = PeakAfterRead
    /\ max_drawdown' = DrawdownAfterRead
    /\ lastOp' = [op |-> "get_account_balance", result |-> "AccountBalance",
                  order |-> None,
                  arg |-> [available_margin |-> available_margin,
                           used_margin |-> used_margin,
                           total_margin |-> virtual_balance,
                           cash_balance |->
                               _calculate_unrealized_pnl
                                   + (virtual_balance - initial_balance)]]
    /\ UNCHANGED <<slippage_factor, virtual_balance, available_margin,
                   used_margin, virtual_positions, virtual_orders,
                   order_history, orders, uuid_count, total_trades,
                   winning_trades, losing_trades, total_commission_paid>>
    /\ UNCHANGED <<stepVars, scanVars>>

\* get_positions lines 335-342: current_price is the entry price, and the
\* P&L less the commission is stored in the position
PositionAfterRead(position) ==
    LET current_price == position.entry_price
        pnl == IF position.side = "BUY"
               THEN (current_price - position.entry_price) * position.quantity
               ELSE (position.entry_price - current_price) * position.quantity
    IN  [position EXCEPT !.unrealized_pnl = pnl - commission_per_trade]

\* get_positions
GetPositions ==
    /\ virtual_positions' =
           [sym \in DOMAIN virtual_positions |->
                PositionAfterRead(virtual_positions[sym])]
    /\ lastOp' = [op |-> "get_positions", result |-> "list", order |-> None,
                  arg |-> [sym \in DOMAIN virtual_positions |->
                              PositionAfterRead(virtual_positions[sym])]]
    /\ UNCHANGED <<slippage_factor, virtual_balance, available_margin,
                   used_margin, virtual_orders, order_history, orders,
                   uuid_count, total_trades, winning_trades, losing_trades,
                   total_commission_paid, max_drawdown, peak_portfolio_value>>
    /\ UNCHANGED <<stepVars, scanVars>>

\* get_paper_trading_stats lines 372-391: the amounts and counts of the
\* result (the rates derived from them are left out)
get_paper_trading_stats ==
    [initial_balance |-> initial_balance,
     current_balance |-> virtual_balance,
     available_margin |-> available_margin,
     used_margin |-> used_margin,
     unrealized_pnl |-> _calculate_unrealized_pnl,
     realized_pnl |-> virtual_balance - initial_balance,
     total_trades |-> total_trades,
     winning_trades |-> winning_trades,
     losing_trades |-> losing_trades,
     total_commission_paid |-> total_commission_paid,
     max_drawdown |-> max_drawdown,
     active_positions |-> Cardinality(DOMAIN virtual_positions),
     pending_orders |-> Cardinality(DOMAIN virtual_orders)]

GetPaperTradingStats ==
    /\ lastOp' = [op |-> "get_paper_trading_stats", result |-> "dict",
                  order |-> None, arg |-> get_paper_trading_stats]
    /\ UNCHANGED <<slippage_factor, virtual_balance, available_margin,
                   used_margin, virtual_positions, virtual_orders,
                   order_history, orders, uuid_count, total_trades,
                   winning_trades, losing_trades, total_commission_paid,
                   max_drawdown, peak_portfolio_value>>
    /\ UNCHANGED <<stepVars, scanVars>>

\* mutant: the reset keeps the balance it finds
ResetBalance_Keep == virtual_balance

\* reset_paper_trading line 542: self.virtual_balance = self.initial_balance
ResetBalance == initial_balance

\* reset_paper_trading
ResetPaperTrading ==
    /\ virtual_balance' = ResetBalance
    /\ available_margin' = ResetBalance
    /\ used_margin' = 0
    /\ virtual_positions' = <<>>
    /\ virtual_orders' = <<>>
    /\ order_history' = <<>>
    /\ total_trades' = 0
    /\ winning_trades' = 0
    /\ losing_trades' = 0
    /\ total_commission_paid' = 0
    /\ max_drawdown' = 0
    /\ peak_portfolio_value' = ResetBalance
    /\ lastOp' = [op |-> "reset_paper_trading", result |-> "True",
                  order |-> None, arg |-> get_paper_trading_stats]
    /\ UNCHANGED <<slippage_factor, orders, uuid_count>>
    /\ UNCHANGED <<stepVars, scanVars>>

ReadsNext ==
    \/ PlaceNew
    \/ GetAccountBalance
    \/ GetPositions
    \/ GetPaperTradingStats
    \/ ResetPaperTrading

\* ------------------------------------------------------------------------
\* place_order as the interpreter runs it: one action per statement, and an
\* augmented assignment to a margin field (x -= y) as its load and its store,
\* between which the interpreter may switch threads.
NoLocals == [i |-> None, arg |-> NoOrder, virtual_order_id |-> None,
             required_margin |-> 0, tmp |-> 0]

Goto(t, label) == pc' = [pc EXCEPT ![t] = label]

\* a statement that loads a broker field: the value waits in the frame
Load(t, from, to, value) ==
    /\ pc[t] = from
    /\ Goto(t, to)
    /\ loc' = [loc EXCEPT ![t].tmp = value]
    /\ UNCHANGED <<brokerVars, calls, scanVars>>

\* the caller enters place_order with a new Order, or with an Order object
\* that no call is working on
Call(t) ==
    /\ pc[t] = "idle"
    /\ UNCHANGED <<scanVars, trackVars>>
    /\ calls[t] < MaxCalls
    /\ \/ \E sym \in Symbols, side \in Sides, type \in OrderTypes,
             qty \in Quantities, p \in StepPrices :
            LET o == NewOrder(sym, side, type, qty, p * Scale)
            IN  /\ Representable(o)
                /\ orders' = Append(orders, o)
                /\ loc' = [loc EXCEPT ![t] = [NoLocals EXCEPT
                               !.i = Len(orders) + 1, !.arg = o]]
       \/ \E i \in 1..Len(orders) :
            /\ \A u \in Callers : pc[u] # "idle" => loc[u].i # i
            /\ Representable(orders[i])
            /\ orders' = orders
            /\ loc' = [loc EXCEPT ![t] = [NoLocals EXCEPT
                           !.i = i, !.arg = orders[i]]]
    /\ calls' = [calls EXCEPT ![t] = @ + 1]
    /\ Goto(t, "check")
    /\ UNCHANGED <<slippage_factor, virtual_balance, available_margin,
                   used_margin, virtual_positions, virtual_orders,
                   order_history, uuid_count, total_trades, winning_trades,
                   losing_trades, total_commission_paid, lastOp>>

\* lines 88-97: new id, required margin, the margin check
Check(t) ==
    /\ pc[t] = "check"
    /\ UNCHANGED <<scanVars, trackVars>>
    /\ LET o == orders[loc[t].i]
       IN  IF InsufficientMargin(o, available_margin)
           THEN /\ Goto(t, "idle")
                /\ lastOp' = [op |-> "place_order",
                              result |-> "InsufficientMarginException",
                              order |-> loc[t].i, arg |-> loc[t].arg]
                /\ loc' = [loc EXCEPT ![t] = NoLocals]
                /\ UNCHANGED uuid_count
           ELSE /\ Goto(t, "submit")
                /\ uuid_count' = uuid_count + 1
                /\ loc' = [loc EXCEPT
                       ![t].virtual_order_id = uuid_count + 1,
                       ![t].required_margin =
                           _calculate_required_margin(o.price, o.quantity)]
                /\ UNCHANGED lastOp
    /\ UNCHANGED <<slippage_factor, virtual_balance, available_margin,
                   used_margin, virtual_positions, virtual_orders,
                   order_history, orders, total_trades, winning_trades,
                   losing_trades, total_commission_paid, calls>>

\* lines 99-109: broker id, SUBMITTED, slippage, store in virtual_orders
Submit(t) ==
    /\ pc[t] = "submit"
    /\ UNCHANGED <<scanVars, trackVars>>
    /\ orders' = [orders EXCEPT ![loc[t].i] =
                     SubmittedOrder(@, loc[t].virtual_order_id)]
    /\ virtual_orders' = Put(virtual_orders, loc[t].virtual_order_id, loc[t].i)
    /\ Goto(t, "reserve_avail")
    /\ UNCHANGED <<slippage_factor, virtual_balance, available_margin,
                   used_margin, virtual_positions, order_history, uuid_count,
                   total_trades, winning_trades, losing_trades,
                   total_commission_paid, lastOp, loc, calls>>

\* line 112: self.available_margin -= required_margin
ReserveAvailLoad(t) ==
    Load(t, "reserve_avail", "reserve_avail_store", available_margin)

ReserveAvailStore(t) ==
    /\ pc[t] = "reserve_avail_store"
    /\ UNCHANGED <<scanVars, trackVars>>
    /\ available_margin' =
           ReserveMargin(loc[t].tmp, 0, loc[t].required_margin).available_margin
    /\ loc' = [loc EXCEPT ![t].tmp = 0]
    /\ Goto(t, "reserve_used")
    /\ UNCHANGED <<slippage_factor, virtual_balance, used_margin,
                   virtual_positions, virtual_orders, order_history, orders,
                   uuid_count, total_trades, winning_trades, losing_trades,
                   total_commission_paid, lastOp, calls>>

\* line 113: self.used_margin += required_margin
ReserveUsedLoad(t) ==
    Load(t, "reserve_used", "reserve_used_store", used_margin)

ReserveUsedStore(t) ==
    /\ pc[t] = "reserve_used_store"
    /\ UNCHANGED <<scanVars, trackVars>>
    /\ used_margin' =
           ReserveMargin(0, loc[t].tmp, loc[t].required_margin).used_margin
    /\ loc' = [loc EXCEPT ![t].tmp = 0]
    /\ Goto(t, "execute")
    /\ UNCHANGED <<slippage_factor, virtual_balance, available_margin,
                   virtual_positions, virtual_orders, order_history, orders,
                   uuid_count, total_trades, winning_trades, losing_trades,
                   total_commission_paid, lastOp, calls>>

\* lines 440-444: EXECUTED, executed price and quantity
Execute(t) ==
    /\ pc[t] = "execute"
    /\ UNCHANGED <<scanVars, trackVars>>
    /\ orders' = [orders EXCEPT ![loc[t].i] = ExecutedOrder(@)]
    /\ Goto(t, "commission")
    /\ UNCHANGED <<slippage_factor, virtual_balance, available_margin,
                   used_margin, virtual_positions, virtual_orders,
                   order_history, uuid_count, total_trades, winning_trades,
                   losing_trades, total_commission_paid, lastOp, loc, calls>>

\* lines 446-448: self.total_commission_paid += commission
CommissionUpdate(t) ==
    /\ pc[t] = "commission"
    /\ UNCHANGED <<scanVars, trackVars>>
    /\ total_commission_paid' = total_commission_paid + commission_per_trade
    /\ Goto(t, "balance")
    /\ UNCHANGED <<slippage_factor, virtual_balance, available_margin,
                   used_margin, virtual_positions, virtual_orders,
                   order_history, orders, uuid_count, total_trades,
                   winning_trades, losing_trades, lastOp, loc, calls>>

\* lines 450-456 and 475-476: self.virtual_balance -= / += the order value
BalanceUpdate(t) ==
    /\ pc[t] = "balance"
    /\ UNCHANGED <<scanVars, trackVars>>
    /\ virtual_balance' =
           BalanceAfterFill(virtual_balance, orders[loc[t].i],
                            commission_per_trade)
    /\ Goto(t, "position")
    /\ UNCHANGED <<slippage_factor, available_margin, used_margin,
                   virtual_positions, virtual_orders, order_history, orders,
                   uuid_count, total_trades, winning_trades, losing_trades,
                   total_commission_paid, lastOp, loc, calls>>

\* lines 458-471 and 478-497: the position and the win/loss counters
PositionUpdate(t) ==
    /\ pc[t] = "position"
    /\ UNCHANGED <<scanVars, trackVars>>
    /\ LET o == orders[loc[t].i]
           outcome == TradeOutcome(virtual_positions, o, commission_per_trade)
       IN  /\ virtual_positions' =
                  IF o.side = "BUY"
                  THEN BuyFill(virtual_positions, o)
                  ELSE SellFill(virtual_positions, o, commission_per_trade)
           /\ winning_trades' =
                  winning_trades + (IF outcome = "win" THEN 1 ELSE 0)
           /\ losing_trades' =
                  losing_trades + (IF outcome = "loss" THEN 1 ELSE 0)
    /\ Goto(t, "release_used")
    /\ UNCHANGED <<slippage_factor, virtual_balance, available_margin,
                   used_margin, virtual_orders, order_history, orders,
                   uuid_count, total_trades, total_commission_paid, lastOp,
                   loc, calls>>

\* lines 500-501: required margin of the order as it now is; used_margin -=
ReleaseUsedLoad(t) ==
    Load(t, "release_used", "release_used_store", used_margin)

ReleaseUsedStore(t) ==
    /\ pc[t] = "release_used_store"
    /\ UNCHANGED <<scanVars, trackVars>>
    /\ LET o == orders[loc[t].i]
       IN  used_margin' =
               ReleaseMargin(0, loc[t].tmp,
                   _calculate_required_margin(o.price, o.quantity)).used_margin
    /\ loc' = [loc EXCEPT ![t].tmp = 0]
    /\ Goto(t, "release_avail")
    /\ UNCHANGED <<slippage_factor, virtual_balance, available_margin,
                   virtual_positions, virtual_orders, order_history, orders,
                   uuid_count, total_trades, winning_trades, losing_trades,
                   total_commission_paid, lastOp, calls>>

\* line 502: self.available_margin += required_margin
ReleaseAvailLoad(t) ==
    Load(t, "release_avail", "release_avail_store", available_margin)

ReleaseAvailStore(t) ==
    /\ pc[t] = "release_avail_store"
    /\ UNCHANGED <<scanVars, trackVars>>
    /\ LET o == orders[loc[t].i]
       IN  available_margin' =
               ReleaseMargin(loc[t].tmp, 0,
                   _calculate_required_margin(o.price, o.quantity)
               ).available_margin
    /\ loc' = [loc EXCEPT ![t].tmp = 0]
    /\ Goto(t, "trades")
    /\ UNCHANGED <<slippage_factor, virtual_balance, used_margin,
                   virtual_positions, virtual_orders, order_history, orders,
                   uuid_count, total_trades, winning_trades, losing_trades,
                   total_commission_paid, lastOp, calls>>

\* line 505: self.total_trades += 1
TradesUpdate(t) ==
    /\ pc[t] = "trades"
    /\ UNCHANGED <<scanVars, trackVars>>
    /\ total_trades' = total_trades + 1
    /\ Goto(t, "history")
    /\ UNCHANGED <<slippage_factor, virtual_balance, available_margin,
                   used_margin, virtual_positions, virtual_orders,
                   order_history, orders, uuid_count, winning_trades,
                   losing_trades, total_commission_paid, lastOp, loc, calls>>

\* lines 507-510 and 120: move to history, drop from virtual_orders, return
History(t) ==
    /\ pc[t] = "history"
    /\ UNCHANGED <<scanVars, trackVars>>
    /\ order_history' = Append(order_history, loc[t].i)
    /\ virtual_orders' = Del(virtual_orders, loc[t].virtual_order_id)
    /\ lastOp' = [op |-> "place_order", result |-> "placed",
                  order |-> loc[t].i, arg |-> loc[t].arg]
    /\ loc' = [loc EXCEPT ![t] = NoLocals]
    /\ Goto(t, "idle")
    /\ UNCHANGED <<slippage_factor, virtual_balance, available_margin,
                   used_margin, virtual_positions, orders, uuid_count,
                   total_trades, winning_trades, losing_trades,
                   total_commission_paid, calls>>

\* a request thread calls cancel_order while others are inside place_order
CancelCall(t) ==
    /\ pc[t] = "idle"
    /\ calls[t] < MaxCalls
    /\ calls' = [calls EXCEPT ![t] = @ + 1]
    /\ \E order_id \in 1..(uuid_count + 1) : cancel_order(order_id)
    /\ UNCHANGED <<pc, loc, scanVars, trackVars>>

StepNext ==
    \E t \in Callers :
        \/ Call(t)
        \/ CancelCall(t)
        \/ Check(t)
        \/ Submit(t)
        \/ ReserveAvailLoad(t)
        \/ ReserveAvailStore(t)
        \/ ReserveUsedLoad(t)
        \/ ReserveUsedStore(t)
        \/ Execute(t)
        \/ CommissionUpdate(t)
        \/ BalanceUpdate(t)
        \/ PositionUpdate(t)
        \/ ReleaseUsedLoad(t)
        \/ ReleaseUsedStore(t)
        \/ ReleaseAvailLoad(t)
        \/ ReleaseAvailStore(t)
        \/ TradesUpdate(t)
        \/ History(t)

\* ------------------------------------------------------------------------
\* MarketScannerManager.  start_scanning and stop_scanning run on the thread
\* of the request that calls them; every start_scanning that passes its check
\* starts a new daemon thread that runs _async_scanning_loop on an event loop
\* of its own.  Time passes in Tick, up to the next timer that is due.
Handlers == {"h1", "h2"}
Threads == 1..MaxThreads

Alive(th) == thread_pc[th] \notin {"unstarted", "dead"}

HandlerGoto(h, label) == handler_pc' = [handler_pc EXCEPT ![h] = label]

\* start_scanning lines 112-113: the check of the flag
StartCheck(h) ==
    /\ handler_pc[h] = "idle"
    /\ requests < MaxRequests
    /\ \/ manager_is_scanning
       \/ Cardinality({th \in Threads : thread_pc[th] # "unstarted"})
            + Cardinality({g \in Handlers :
                              handler_pc[g] \in {"start_set", "start_thread"}})
            < MaxThreads
    /\ requests' = requests + 1
    /\ IF manager_is_scanning
       THEN HandlerGoto(h, "idle")        \* "Scanner is already running"
       ELSE HandlerGoto(h, "start_set")
    /\ UNCHANGED <<manager_is_scanning, scan_thread, thread_pc, sleep_left,
                   join_thread, join_left>>
    /\ UNCHANGED <<brokerVars, stepVars, scannerVars, dataVars,
                   riskVars, orchVars, auxVars>>

\* start_scanning line 115: self.is_scanning = True
StartSet(h) ==
    /\ handler_pc[h] = "start_set"
    /\ manager_is_scanning' = TRUE
    /\ HandlerGoto(h, "start_thread")
    /\ UNCHANGED <<scan_thread, thread_pc, sleep_left, join_thread, join_left,
                   requests>>
    /\ UNCHANGED <<brokerVars, stepVars, scannerVars, dataVars,
                   riskVars, orchVars, auxVars>>

\* start_scanning lines 118-119: a new thread, stored and started
StartThread(h) ==
    /\ handler_pc[h] = "start_thread"
    /\ LET th == CHOOSE x \in Threads :
                    /\ thread_pc[x] = "unstarted"
                    /\ \A y \in Threads : thread_pc[y] = "unstarted" => x <= y
       IN  /\ scan_thread' = th
           /\ thread_pc' = [thread_pc EXCEPT ![th] = "check"]
    /\ HandlerGoto(h, "idle")
    /\ UNCHANGED <<manager_is_scanning, sleep_left, join_thread, join_left,
                   requests>>
    /\ UNCHANGED <<brokerVars, stepVars, scannerVars, dataVars,
                   riskVars, orchVars, auxVars>>

\* stop_scanning line 134: self.is_scanning = False
StopSignal(h) ==
    /\ handler_pc[h] = "idle"
    /\ requests < MaxRequests
    /\ requests' = requests + 1
    /\ manager_is_scanning' = FALSE
    /\ HandlerGoto(h, "stop_join")
    /\ UNCHANGED <<scan_thread, thread_pc, sleep_left, join_thread, join_left>>
    /\ UNCHANGED <<brokerVars, stepVars, scannerVars, dataVars,
                   riskVars, orchVars, auxVars>>

\* stop_scanning lines 136-138: join the thread if there is a live one
StopJoin(h) ==
    /\ handler_pc[h] = "stop_join"
    /\ IF scan_thread # None /\ Alive(scan_thread)
       THEN /\ HandlerGoto(h, "joining")
            /\ join_thread' = [join_thread EXCEPT ![h] = scan_thread]
            /\ join_left' = [join_left EXCEPT ![h] = JoinSeconds]
       ELSE /\ HandlerGoto(h, "idle")
            /\ UNCHANGED <<join_thread, join_left>>
    /\ UNCHANGED <<manager_is_scanning, scan_thread, thread_pc, sleep_left,
                   requests>>
    /\ UNCHANGED <<brokerVars, stepVars, scannerVars, dataVars,
                   riskVars, orchVars, auxVars>>

\* join returns because the thread has ended
JoinReturn(h) ==
    /\ handler_pc[h] = "joining"
    /\ thread_pc[join_thread[h]] = "dead"
    /\ HandlerGoto(h, "idle")
    /\ join_thread' = [join_thread EXCEPT ![h] = None]
    /\ join_left' = [join_left EXCEPT ![h] = 0]
    /\ UNCHANGED <<manager_is_scanning, scan_thread, thread_pc, sleep_left,
                   requests>>
    /\ UNCHANGED <<brokerVars, stepVars, scannerVars, dataVars,
                   riskVars, orchVars, auxVars>>

\* join returns because its timeout has passed; stop_scanning reports success
JoinExpire(h) ==
    /\ handler_pc[h] = "joining"
    /\ thread_pc[join_thread[h]] # "dead"
    /\ join_left[h] = 0
    /\ HandlerGoto(h, "idle")
    /\ join_thread' = [join_thread EXCEPT ![h] = None]
    /\ UNCHANGED <<manager_is_scanning, scan_thread, thread_pc, sleep_left,
                   join_left, requests>>
    /\ UNCHANGED <<brokerVars, stepVars, scannerVars, dataVars,
                   riskVars, orchVars, auxVars>>

\* _async_scanning_loop line 166: while self.is_scanning
LoopCheck(th) ==
    /\ thread_pc[th] = "check"
    /\ thread_pc' = [thread_pc EXCEPT ![th] =
                        IF manager_is_scanning THEN "scanning" ELSE "dead"]
    /\ UNCHANGED <<manager_is_scanning, scan_thread, sleep_left, handler_pc,
                   join_thread, join_left, requests>>
    /\ UNCHANGED <<brokerVars, stepVars, scannerVars, dataVars,
                   riskVars, orchVars, auxVars>>

\* _async_scanning_loop lines 168-181: the scan cycle ends, the sleep begins
ScanDone(th) ==
    /\ thread_pc[th] = "scanning"
    /\ thread_pc' = [thread_pc EXCEPT ![th] = "sleeping"]
    /\ sleep_left' = [sleep_left EXCEPT ![th] = SleepSeconds]
    /\ UNCHANGED <<manager_is_scanning, scan_thread, handler_pc, join_thread,
                   join_left, requests>>
    /\ UNCHANGED <<brokerVars, stepVars, scannerVars, dataVars,
                   riskVars, orchVars, auxVars>>

\* the sleep is over: back to the loop condition
Wake(th) ==
    /\ thread_pc[th] = "sleeping"
    /\ sleep_left[th] = 0
    /\ thread_pc' = [thread_pc EXCEPT ![th] = "check"]
    /\ UNCHANGED <<manager_is_scanning, scan_thread, sleep_left, handler_pc,
                   join_thread, join_left, requests>>
    /\ UNCHANGED <<brokerVars, stepVars, scannerVars, dataVars,
                   riskVars, orchVars, auxVars>>

\* the timers that are running
Timers ==
    {sleep_left[th] : th \in {x \in Threads : thread_pc[x] = "sleeping"}}
        \cup {join_left[h] : h \in {g \in Handlers : handler_pc[g] = "joining"}}

\* time passes until the first running timer is due; a thread at its loop
\* test runs it before any time that counts has passed
Tick ==
    /\ Timers # {}
    /\ \A d \in Timers : d > 0
    /\ \A th \in Threads : thread_pc[th] # "check"
    /\ LET d == CHOOSE x \in Timers : \A y \in Timers : x <= y
       IN  /\ sleep_left' = [th \in Threads |->
                                IF thread_pc[th] = "sleeping"
                                THEN sleep_left[th] - d ELSE sleep_left[th]]
           /\ join_left' = [h \in Handlers |->
                                IF handler_pc[h] = "joining"
                                THEN join_left[h] - d ELSE join_left[h]]
    /\ UNCHANGED <<manager_is_scanning, scan_thread, thread_pc, handler_pc,
                   join_thread, requests>>
    /\ UNCHANGED <<brokerVars, stepVars, scannerVars, dataVars,
                   riskVars, orchVars, auxVars>>

ManagerNext ==
    \/ \E h \in Handlers :
        \/ StartCheck(h)
        \/ StartSet(h)
        \/ StartThread(h)
        \/ StopSignal(h)
        \/ StopJoin(h)
        \/ JoinReturn(h)
        \/ JoinExpire(h)
    \/ \E th \in Threads :
        \/ LoopCheck(th)
        \/ ScanDone(th)
        \/ Wake(th)
    \/ Tick

ManagerInit ==
    /\ manager_is_scanning = FALSE
    /\ scan_thread = None
    /\ thread_pc = [th \in Threads |-> "unstarted"]
    /\ sleep_left = [th \in Threads |-> 0]
    /\ handler_pc = [h \in Handlers |-> "idle"]
    /\ join_thread = [h \in Handlers |-> None]
    /\ join_left = [h \in Handlers |-> 0]
    /\ requests = 0

\* ------------------------------------------------------------------------
\* MarketScanner on one asyncio event loop.  ready is the loop's queue of
\* callbacks: the loop runs the callback at its head to the next point where
\* it suspends.  Callbacks are the start_scanning and stop_scanning calls of
\* other coroutines, the steps of a _scan_loop task, and the child tasks
\* asyncio.gather makes of the _scan_single_stock calls of a batch.
\* _scan_single_stock never suspends (the market-data provider is called
\* synchronously), so a child runs in one step.  CancelledError is not an
\* Exception (Python 3.8 and later): only _scan_loop catches it.
TaskIds == 1..MaxTasks

stock_universe == [i \in 1..UniverseSize |-> i]

Min(a, b) == IF a <= b THEN a ELSE b

\* _create_scan_batches line 274: min(max_concurrent_scans, len(universe))
BatchSize(u) == Min(max_concurrent_scans, Len(u))

\* _create_scan_batches line 277: range(0, len, 0) raises ValueError
BatchingRaises(u) == BatchSize(u) = 0

\* _create_scan_batches: slices of batch_size symbols, in order
_create_scan_batches(u) ==
    [b \in 1..((Len(u) + BatchSize(u) - 1) \div BatchSize(u)) |->
        SubSeq(u, (b - 1) * BatchSize(u) + 1, Min(b * BatchSize(u), Len(u)))]

NoTask == [state |-> "unstarted", at |-> "start", waiting |-> FALSE,
           must_cancel |-> FALSE, gather_cancelled |-> FALSE,
           batch_no |-> 0, size |-> 0, scanned |-> 0, cancelled |-> 0]

Callback(kind, id) == [kind |-> kind, task |-> id]

HeadIs(kind) == ready # <<>> /\ Head(ready).kind = kind

Children(id, n) == [k \in 1..n |-> Callback("child", id)]

\* a task that ends wakes the stop_scanning call that awaits it
Done(id, queue) ==
    IF stop_pc = "awaiting" /\ stop_awaits = id
    THEN Append(queue, Callback("stop_resume", id))
    ELSE queue

\* _perform_market_scan lines 229-230: the next batch goes to asyncio.gather
Dispatch(t, b) ==
    [t EXCEPT !.at = "gather", !.waiting = TRUE, !.batch_no = b,
              !.size = Len(_create_scan_batches(stock_universe)[b]),
              !.scanned = 0, !.cancelled = 0]

\* another coroutine calls start_scanning
CallStart ==
    /\ loop_calls < MaxLoopCalls
    /\ Cardinality({id \in TaskIds : tasks[id].state # "unstarted"})
         + Cardinality({k \in 1..Len(ready) : ready[k].kind = "start"})
         < MaxTasks
    /\ loop_calls' = loop_calls + 1
    /\ ready' = Append(ready, Callback("start", None))
    /\ UNCHANGED <<scanner_is_scanning, scan_task, tasks, stop_pc, stop_awaits>>
    /\ UNCHANGED <<brokerVars, stepVars, managerVars, dataVars,
                   riskVars, orchVars, auxVars>>

\* another coroutine calls stop_scanning
CallStop ==
    /\ loop_calls < MaxLoopCalls
    /\ stop_pc \in {"idle", "returned"}
    /\ loop_calls' = loop_calls + 1
    /\ stop_pc' = "called"
    /\ stop_awaits' = None
    /\ ready' = Append(ready, Callback("stop", None))
    /\ UNCHANGED <<scanner_is_scanning, scan_task, tasks>>
    /\ UNCHANGED <<brokerVars, stepVars, managerVars, dataVars,
                   riskVars, orchVars, auxVars>>

\* start_scanning
RunStart ==
    /\ HeadIs("start")
    /\ IF scanner_is_scanning
       THEN /\ ready' = Tail(ready)
            /\ UNCHANGED <<scanner_is_scanning, scan_task, tasks>>
       ELSE LET id == CHOOSE x \in TaskIds :
                         /\ tasks[x].state = "unstarted"
                         /\ \A y \in TaskIds :
                                tasks[y].state = "unstarted" => x <= y
            IN  /\ scanner_is_scanning' = TRUE
                /\ scan_task' = id
                /\ tasks' = [tasks EXCEPT ![id].state = "pending"]
                /\ ready' = Append(Tail(ready), Callback("step", id))
    /\ UNCHANGED <<stop_pc, stop_awaits, loop_calls>>
    /\ UNCHANGED <<brokerVars, stepVars, managerVars, dataVars,
                   riskVars, orchVars, auxVars>>

\* Task.cancel() as stop_scanning calls it
Cancel(t) ==
    IF t.state = "done" THEN t
    ELSE IF t.waiting /\ t.at = "gather"
         THEN [t EXCEPT !.gather_cancelled = TRUE]
         ELSE [t EXCEPT !.waiting = FALSE, !.must_cancel = TRUE]

\* stop_scanning, to its await of the task
RunStop ==
    /\ HeadIs("stop")
    /\ IF ~scanner_is_scanning \/ scan_task = None
       THEN /\ scanner_is_scanning' = FALSE
            /\ stop_pc' = "returned"
            /\ ready' = Tail(ready)
            /\ UNCHANGED <<tasks, stop_awaits>>
       ELSE LET t == tasks[scan_task]
            IN  /\ scanner_is_scanning' = FALSE
                /\ tasks' = [tasks EXCEPT ![scan_task] = Cancel(t)]
                /\ stop_awaits' = scan_task
                /\ stop_pc' = IF t.state = "done" THEN "returned"
                                                  ELSE "awaiting"
                /\ ready' = IF t.state # "done" /\ t.waiting /\ t.at # "gather"
                            THEN Append(Tail(ready),
                                        Callback("step", scan_task))
                            ELSE Tail(ready)
    /\ UNCHANGED <<scan_task, loop_calls>>
    /\ UNCHANGED <<brokerVars, stepVars, managerVars, dataVars,
                   riskVars, orchVars, auxVars>>

\* one step of a _scan_loop task
RunStep ==
    /\ HeadIs("step")
    /\ LET id == Head(ready).task
           t == tasks[id]
           batches == _create_scan_batches(stock_universe)
       IN  IF t.must_cancel \/ (t.at \in {"start", "interval_sleep"}
                                   /\ ~scanner_is_scanning)
           THEN \* CancelledError reaches _scan_loop, or its loop test fails
                /\ tasks' = [tasks EXCEPT ![id] =
                                [t EXCEPT !.state = "done",
                                          !.must_cancel = FALSE]]
                /\ ready' = Done(id, Tail(ready))
           ELSE IF t.at \in {"start", "interval_sleep"}
           THEN /\ tasks' = [tasks EXCEPT ![id] = Dispatch(t, 1)]
                /\ ready' = Tail(ready) \o Children(id, Len(batches[1]))
           ELSE IF t.at = "gather"
           THEN \* line 234: await asyncio.sleep(0.1)
                /\ tasks' = [tasks EXCEPT ![id] =
                                [t EXCEPT !.at = "batch_sleep",
                                          !.waiting = TRUE]]
                /\ ready' = Tail(ready)
           ELSE IF t.batch_no < Len(batches)
           THEN /\ tasks' = [tasks EXCEPT ![id] = Dispatch(t, t.batch_no + 1)]
                /\ ready' = Tail(ready)
                              \o Children(id, Len(batches[t.batch_no + 1]))
           ELSE \* the scan is complete; line 212: the interval sleep
                /\ tasks' = [tasks EXCEPT ![id] =
                                [t EXCEPT !.at = "interval_sleep",
                                          !.waiting = TRUE]]
                /\ ready' = Tail(ready)
    /\ UNCHANGED <<scanner_is_scanning, scan_task, stop_pc, stop_awaits,
                   loop_calls>>
    /\ UNCHANGED <<brokerVars, stepVars, managerVars, dataVars,
                   riskVars, orchVars, auxVars>>

\* one child of asyncio.gather: _scan_single_stock, or its cancellation
RunChild ==
    /\ HeadIs("child")
    /\ LET id == Head(ready).task
           t == tasks[id]
           u == IF t.gather_cancelled
                THEN [t EXCEPT !.cancelled = t.cancelled + 1]
                ELSE [t EXCEPT !.scanned = t.scanned + 1]
           last == u.scanned + u.cancelled = u.size
       IN  /\ tasks' = [tasks EXCEPT ![id] =
                          IF last
                          THEN [u EXCEPT !.waiting = FALSE,
                                         !.must_cancel = u.gather_cancelled,
                                         !.gather_cancelled = FALSE]
                          ELSE u]
           /\ ready' = IF last THEN Append(Tail(ready), Callback("step", id))
                               ELSE Tail(ready)
    /\ UNCHANGED <<scanner_is_scanning, scan_task, stop_pc, stop_awaits,
                   loop_calls>>
    /\ UNCHANGED <<brokerVars, stepVars, managerVars, dataVars,
                   riskVars, orchVars, auxVars>>

\* stop_scanning after its await: it returns
RunStopResume ==
    /\ HeadIs("stop_resume")
    /\ stop_pc' = "returned"
    /\ ready' = Tail(ready)
    /\ UNCHANGED <<scanner_is_scanning, scan_task, tasks, stop_awaits,
                   loop_calls>>
    /\ UNCHANGED <<brokerVars, stepVars, managerVars, dataVars,
                   riskVars, orchVars, auxVars>>

\* the asyncio.sleep a task waits in is over
TimerFire(id) ==
    /\ tasks[id].state = "pending"
    /\ tasks[id].waiting
    /\ tasks[id].at \in {"batch_sleep", "interval_sleep"}
    /\ tasks' = [tasks EXCEPT ![id].waiting = FALSE]
    /\ ready' = Append(ready, Callback("step", id))
    /\ UNCHANGED <<scanner_is_scanning, scan_task, stop_pc, stop_awaits,
                   loop_calls>>
    /\ UNCHANGED <<brokerVars, stepVars, managerVars, dataVars,
                   riskVars, orchVars, auxVars>>

ScannerNext ==
    \/ CallStart
    \/ CallStop
    \/ RunStart
    \/ RunStop
    \/ RunStep
    \/ RunChild
    \/ RunStopResume
    \/ \E id \in TaskIds : TimerFire(id)

ScannerInit ==
    /\ scanner_is_scanning = FALSE
    /\ scan_task = None
    /\ tasks = [id \in TaskIds |-> NoTask]
    /\ ready = <<>>
    /\ stop_pc = "idle"
    /\ stop_awaits = None
    /\ loop_calls = 0

\* ------------------------------------------------------------------------
\* One scan cycle of MarketScanner and what it produces.  The market-data
\* provider and the strategy engine are outside: for every symbol scanned
\* they answer with any of the Answers.  Confidence scores are in tenths.
ScanSymbols == {"RELIANCE", "EICHERMOT"}
SignalTypes == {"BUY", "SELL", "SHORT"}
Confidences == {6, 7, 9}

\* strategy_manager.get_active_strategies(), in order, and the kind of
\* signal each strategy gives
Strategies == <<"s1", "s2">>
StrategySignal == [s1 |-> "BUY", s2 |-> "SELL"]

StrategyIds == {Strategies[k] : k \in 1..Len(Strategies)}

\* what StrategyEngine.apply_strategy does for one strategy: no signal, an
\* exception, or a signal with a confidence score
StrategyAnswers(id) ==
    {[kind |-> "none", signal_type |-> "", confidence_score |-> 0],
     [kind |-> "raises", signal_type |-> "", confidence_score |-> 0]}
        \cup {[kind |-> "signal", signal_type |-> StrategySignal[id],
               confidence_score |-> c] : c \in Confidences}

NoSignal == [kind |-> "none", signal_type |-> "", confidence_score |-> 0]

\* what the outside does for one symbol: the market data call raises or
\* returns nothing, and then no strategy is asked (line 315), or it returns
\* data and each strategy answers
Answers ==
    {[data |-> d, signals |-> [id \in StrategyIds |-> NoSignal]] :
        d \in {"none", "raises"}}
        \cup {[data |-> "ok", signals |-> sg] :
                 sg \in {f \in [StrategyIds ->
                                   UNION {StrategyAnswers(id) :
                                              id \in StrategyIds}] :
                             \A id \in StrategyIds :
                                 f[id] \in StrategyAnswers(id)}}

\* the stock universes that can be configured: the lists of symbols, with
\* as many entries as there are symbols at most, which is long enough for
\* one symbol listed twice and for two different symbols
Universes ==
    UNION {[1..n -> ScanSymbols] : n \in 0..Cardinality(ScanSymbols)}

Opportunity(symbol, id, signal_type, confidence_score) ==
    [symbol |-> symbol, strategy_id |-> id, signal_type |-> signal_type,
     confidence_score |-> confidence_score]

\* mutant: the strategy filter lets every signal through
Qualifies_Any(confidence_score) == TRUE

\* lines 238-239 and 402: confidence_score >= self.min_confidence_score
Qualifies(confidence_score) == confidence_score >= MinConfidence

\* _apply_strategy_to_stock: the opportunities of one strategy, none or one
_apply_strategy_to_stock(id, symbol, answer) ==
    IF answer.kind = "signal" /\ Qualifies(answer.confidence_score)
    THEN <<Opportunity(symbol, id, answer.signal_type,
                       answer.confidence_score)>>
    ELSE <<>>

\* max(opportunities, key=lambda x: x.confidence_score): the first of the
\* candidates with the highest score
Best(candidates) ==
    LET top == CHOOSE k \in 1..Len(candidates) :
                   /\ \A j \in 1..Len(candidates) :
                          candidates[j].confidence_score
                              <= candidates[k].confidence_score
                   /\ \A j \in 1..(k - 1) :
                          candidates[j].confidence_score
                              < candidates[k].confidence_score
    IN  candidates[top]

RECURSIVE Candidates(_, _, _)
\* _scan_single_stock lines 321-328: the loop over the active strategies
Candidates(k, symbol, answer) ==
    IF k > Len(Strategies) THEN <<>>
    ELSE _apply_strategy_to_stock(Strategies[k], symbol,
                                  answer.signals[Strategies[k]])
             \o Candidates(k + 1, symbol, answer)

\* _scan_single_stock with _get_stock_data: the opportunities of one symbol,
\* none or one.  _get_stock_data catches what the provider raises and
\* returns None, and a strategy that raises is skipped.
_scan_single_stock(symbol, answer) ==
    IF answer.data # "ok" THEN <<>>
    ELSE IF Candidates(1, symbol, answer) = <<>> THEN <<>>
         ELSE <<Best(Candidates(1, symbol, answer))>>

RECURSIVE CountBuy(_)
CountBuy(opps) ==
    IF opps = <<>> THEN 0
    ELSE (IF Head(opps).signal_type = "BUY" THEN 1 ELSE 0)
             + CountBuy(Tail(opps))

\* mutant: a ratio of exactly 0.6 counts as bullish
Sentiment_TieBullish(buy_signals, total_signals) ==
    IF buy_signals * 10 >= BullishAbove * total_signals THEN "BULLISH"
    ELSE IF buy_signals * 10 < BearishBelow * total_signals THEN "BEARISH"
    ELSE "NEUTRAL"

\* lines 437-444: buy_ratio = buy_signals / total_signals against 0.6 and
\* 0.4.  The float quotient is the double nearest to the exact ratio, and
\* for counts of this size it compares with the doubles 0.6 and 0.4 as the
\* exact ratio compares with 6/10 and 4/10.
Sentiment(buy_signals, total_signals) ==
    IF buy_signals * 10 > BullishAbove * total_signals THEN "BULLISH"
    ELSE IF buy_signals * 10 < BearishBelow * total_signals THEN "BEARISH"
    ELSE "NEUTRAL"

\* MarketScanner._calculate_market_sentiment
_calculate_market_sentiment(opps) ==
    IF opps = <<>> THEN "NEUTRAL"
    ELSE Sentiment(CountBuy(opps), Len(opps))

\* MarketScannerManager._calculate_market_sentiment
Manager_calculate_market_sentiment(opps) ==
    IF opps = <<>> THEN "NEUTRAL"
    ELSE Sentiment(CountBuy(opps), Len(opps))

NoResult == [total_stocks_scanned |-> 0, opportunities_found |-> 0,
             opportunities |-> <<>>, market_sentiment |-> "none"]

\* _perform_market_scan lines 260-270: the result after an exception
ErrorResult == [total_stocks_scanned |-> 0, opportunities_found |-> 0,
                opportunities |-> <<>>, market_sentiment |-> "UNKNOWN"]

\* update_stock_universe with a stock list, or the configured universe
UpdateUniverse ==
    /\ scan_pc = "idle"
    /\ \E u \in Universes : universe' = u
    /\ UNCHANGED <<scan_pc, pending, provided, opportunities,
                   current_scan_results, sentiments>>
    /\ UNCHANGED <<brokerVars, stepVars, managerVars, scannerVars,
                   riskVars, orchVars, auxVars>>

\* _perform_market_scan lines 223-227: the empty list, and the batches or
\* the exception
BeginScan ==
    /\ scan_pc = "idle"
    /\ provided' = <<>>
    /\ opportunities' = <<>>
    /\ IF BatchingRaises(universe)
       THEN /\ current_scan_results' = ErrorResult
            /\ UNCHANGED <<scan_pc, pending>>
       ELSE /\ scan_pc' = "scanning"
            /\ pending' = _create_scan_batches(universe)
            /\ UNCHANGED current_scan_results
    /\ UNCHANGED <<universe, sentiments>>
    /\ UNCHANGED <<brokerVars, stepVars, managerVars, scannerVars,
                   riskVars, orchVars, auxVars>>

\* _scan_stock_batch: the next symbol of the batch in hand is scanned
ScanStock ==
    /\ scan_pc = "scanning"
    /\ pending # <<>>
    /\ LET batch == Head(pending)
           symbol == Head(batch)
       IN  \E answer \in Answers :
               /\ provided' = Append(provided,
                                     [symbol |-> symbol, answer |-> answer])
               /\ opportunities' =
                      opportunities \o _scan_single_stock(symbol, answer)
               /\ pending' = IF Len(batch) = 1 THEN Tail(pending)
                             ELSE <<Tail(batch)>> \o Tail(pending)
    /\ UNCHANGED <<universe, scan_pc, current_scan_results, sentiments>>
    /\ UNCHANGED <<brokerVars, stepVars, managerVars, scannerVars,
                   riskVars, orchVars, auxVars>>

\* _perform_market_scan lines 236-258: filter, sentiment and the result
CompleteScan ==
    /\ scan_pc = "scanning"
    /\ pending = <<>>
    /\ LET filtered_opportunities ==
               SelectSeq(opportunities,
                         LAMBDA opp : Qualifies(opp.confidence_score))
       IN  current_scan_results' =
               [total_stocks_scanned |-> Len(universe),
                opportunities_found |-> Len(filtered_opportunities),
                opportunities |-> filtered_opportunities,
                market_sentiment |->
                    _calculate_market_sentiment(filtered_opportunities)]
    /\ scan_pc' = "idle"
    /\ UNCHANGED <<universe, pending, provided, opportunities, sentiments>>
    /\ UNCHANGED <<brokerVars, stepVars, managerVars, scannerVars,
                   riskVars, orchVars, auxVars>>

ScanNext ==
    \/ UpdateUniverse
    \/ BeginScan
    \/ ScanStock
    \/ CompleteScan

\* a caller builds a list of opportunities
AddOpportunity ==
    /\ Len(opportunities) < MaxOpps
    /\ \E signal_type \in SignalTypes :
           opportunities' =
               Append(opportunities,
                      Opportunity("RELIANCE", "s1", signal_type,
                                  MinConfidence))
    /\ UNCHANGED <<universe, scan_pc, pending, provided, current_scan_results,
                   sentiments>>
    /\ UNCHANGED <<brokerVars, stepVars, managerVars, scannerVars,
                   riskVars, orchVars, auxVars>>

\* both _calculate_market_sentiment are applied to the list
CalculateSentiment ==
    /\ sentiments' =
           [of |-> opportunities,
            scanner |-> _calculate_market_sentiment(opportunities),
            manager |-> Manager_calculate_market_sentiment(opportunities)]
    /\ UNCHANGED <<universe, scan_pc, pending, provided, opportunities,
                   current_scan_results>>
    /\ UNCHANGED <<brokerVars, stepVars, managerVars, scannerVars,
                   riskVars, orchVars, auxVars>>

SentimentNext ==
    \/ AddOpportunity
    \/ CalculateSentiment

\* the default list: of its entries the two for EICHERMOT, at lines 106 and
\* 127, are modelled
_load_stock_universe == <<"EICHERMOT", "EICHERMOT">>

\* __init__ lines 78-84
DataInit ==
    /\ universe = _load_stock_universe
    /\ scan_pc = "idle"
    /\ pending = <<>>
    /\ provided = <<>>
    /\ opportunities = <<>>
    /\ current_scan_results = NoResult
    /\ sentiments = [of |-> <<>>, scanner |-> "none", manager |-> "none"]

\* ----------------------------------------------------------- risk manager
\* RiskManager.  The amounts one call is given are all in the same unit.

\* mutant: the size is not raised to the minimum of 1
ClampSize_NoMinimum(position_size) ==
    IF position_size > max_position_size THEN max_position_size
    ELSE position_size

\* calculate_position_size lines 89-97: the maximum, then the minimum
ClampSize(position_size) ==
    LET limited == IF position_size > max_position_size
                   THEN max_position_size ELSE position_size
    IN  IF limited < 1 THEN 1 ELSE limited

\* calculate_position_size lines 77-83: the calls that raise
\* RiskManagementException
SizeRaises(entry_price, stop_loss, available_capital) ==
    \/ entry_price <= 0 \/ stop_loss <= 0 \/ available_capital <= 0
    \/ Abs(entry_price - stop_loss) = 0

\* calculate_position_size lines 81-98, for a call that does not raise.
\* risk_amount is available_capital * (position_risk_percent / 100) and
\* int() cuts the Decimal quotient risk_amount / risk_per_share, which is
\* not negative, to its whole part.
calculate_position_size(entry_price, stop_loss, available_capital) ==
    LET risk_per_share == Abs(entry_price - stop_loss)
    IN  ClampSize((available_capital * position_risk_percent)
                      \div (100 * risk_per_share))

\* mutant: the order is counted against a limit one lower
_check_portfolio_risk_Strict(positions_count) ==
    positions_count + 1 < max_open_positions

\* _check_portfolio_risk: len(current_positions) + 1 against the limit
_check_portfolio_risk(positions_count) ==
    ~(positions_count + 1 > max_open_positions)

\* validate_order, for an order of this quantity and this many positions
validate_order(quantity, positions_count) ==
    IF positions_count >= max_open_positions THEN FALSE
    ELSE IF daily_pnl <= -max_daily_loss THEN FALSE
    ELSE IF quantity > max_position_size THEN FALSE
    ELSE IF ~_check_portfolio_risk(positions_count) THEN FALSE
    ELSE TRUE

\* the prices, capitals, realized amounts and order quantities of the calls
RiskPrices == {0, 98, 99, 100, 105}
RiskCapitals == {0, 100, 100000, 200000}
RealizedPnls == {-1, 1}
RiskQuantities == {1, max_position_size, max_position_size + 1}

CalculatePositionSize ==
    /\ \E entry_price \in RiskPrices, stop_loss \in RiskPrices,
          available_capital \in RiskCapitals :
           lastRisk' = [op |-> "calculate_position_size",
                        entry_price |-> entry_price,
                        stop_loss |-> stop_loss,
                        available_capital |-> available_capital,
                        raises |-> SizeRaises(entry_price, stop_loss,
                                              available_capital),
                        result |->
                            IF SizeRaises(entry_price, stop_loss,
                                          available_capital)
                            THEN None
                            ELSE calculate_position_size(
                                     entry_price, stop_loss,
                                     available_capital)]
    /\ UNCHANGED <<daily_pnl, daily_trades>>
    /\ UNCHANGED <<brokerVars, stepVars, managerVars, scannerVars, dataVars,
                   orchVars, auxVars>>

ValidateOrder ==
    /\ \E quantity \in RiskQuantities,
          positions_count \in 0..(max_open_positions + 1) :
           lastRisk' = [op |-> "validate_order",
                        quantity |-> quantity,
                        positions_count |-> positions_count,
                        result |-> validate_order(quantity, positions_count)]
    /\ UNCHANGED <<daily_pnl, daily_trades>>
    /\ UNCHANGED <<brokerVars, stepVars, managerVars, scannerVars, dataVars,
                   orchVars, auxVars>>

UpdateDailyTracking ==
    /\ daily_trades < MaxDailyTrades
    /\ \E realized_pnl \in RealizedPnls :
           /\ daily_pnl' = daily_pnl + realized_pnl
           /\ lastRisk' = [op |-> "update_daily_tracking",
                           realized_pnl |-> realized_pnl, result |-> None]
    /\ daily_trades' = daily_trades + 1
    /\ UNCHANGED <<brokerVars, stepVars, managerVars, scannerVars, dataVars,
                   orchVars, auxVars>>

RiskNext ==
    \/ CalculatePositionSize
    \/ ValidateOrder
    \/ UpdateDailyTracking

\* __init__ lines 41-42
RiskInit ==
    /\ daily_pnl = 0
    /\ daily_trades = 0
    /\ lastRisk = [op |-> "init", result |-> None]

\* ----------------------------------------------------------- orchestrator
\* StrategyPaperTradingManager.  The strategies it tracks are the ones
\* strategy_manager.get_active_strategies() lists at construction, as for
\* the scanner.  auto_trading_enabled keeps its initial value True.  A float
\* price of an opportunity goes through Decimal(str(price)), which gives the
\* decimal number the float prints as: the prices are held at Scale.

OrchEntry == 100 * Scale
NearStop == 99 * Scale                       \* 99: a quantity of 1
TightStop == 999 * (Scale \div 10)           \* 99.9: a quantity of 8

\* TradingOpportunity, with the fields process_market_opportunities reads;
\* confidence_score and risk_reward_ratio in tenths
OrchOpportunity(id, confidence_score, risk_reward_ratio, stop_loss) ==
    [symbol |-> "RELIANCE", strategy_id |-> id, signal_type |-> "BUY",
     confidence_score |-> confidence_score,
     risk_reward_ratio |-> risk_reward_ratio,
     entry_price |-> OrchEntry, stop_loss |-> stop_loss,
     target_price |->
         OrchEntry + (risk_reward_ratio * (OrchEntry - stop_loss)) \div 10]

\* one opportunity that passes every check, one below each hard minimum and
\* one whose order needs more margin than the account has
OrchOpportunities ==
    {OrchOpportunity(Strategies[1], HardMinConfidence, HardMinRiskReward,
                     NearStop),
     OrchOpportunity(Strategies[1], HardMinConfidence - 1, HardMinRiskReward,
                     NearStop),
     OrchOpportunity(Strategies[2], HardMinConfidence, HardMinRiskReward - 1,
                     NearStop),
     OrchOpportunity(Strategies[2], HardMinConfidence, HardMinRiskReward,
                     TightStop)}

\* the opportunities of a ScanResult: scanners with any min_confidence_score
OrchResults ==
    UNION {[1..n -> OrchOpportunities] : n \in 1..MaxResultLen}

\* the Order _execute_paper_trade builds (lines 279-288): the stop loss and
\* the target go into the order
OrchOrder(opp, order_side, quantity) ==
    NewOrder(opp.symbol, order_side, "MARKET", quantity, opp.entry_price)
        @@ [stop_loss |-> opp.stop_loss, target |-> opp.target_price]

\* StrategyTrade recorded under the caller's own Order.order_id (position in
\* orders) instead of the id place_order returned
StrategyTrade_CallerOrderId(trade_id, opp, order_side, quantity) ==
    [trade_id |-> Len(orders) + 1, strategy_id |-> opp.strategy_id,
     symbol |-> opp.symbol, order_side |-> order_side,
     entry_price |-> opp.entry_price, quantity |-> quantity,
     status |-> "OPEN"]

\* StrategyTrade as _execute_paper_trade records it (lines 297-305)
StrategyTrade(trade_id, opp, order_side, quantity) ==
    [trade_id |-> trade_id, strategy_id |-> opp.strategy_id,
     symbol |-> opp.symbol, order_side |-> order_side,
     entry_price |-> opp.entry_price, quantity |-> quantity,
     status |-> "OPEN"]

\* a runner that is not inside process_market_opportunities; status and the
\* two counters are what its last call returned
NoRun == [pc |-> "idle", status |-> "none", opps |-> <<>>, i |-> 0,
          position_size |-> 0, trades_executed |-> 0, trades_skipped |-> 0,
          total_opportunities |-> 0, log |-> <<>>, fresh |-> FALSE]

\* mutant: only the confidence is checked
MeetsHardMinimums_ConfidenceOnly(opp) ==
    ~(opp.confidence_score < HardMinConfidence)

\* _validate_trade_risk lines 213-219
MeetsHardMinimums(opp) ==
    /\ ~(opp.confidence_score < HardMinConfidence)
    /\ ~(opp.risk_reward_ratio < HardMinRiskReward)

\* _validate_trade_risk lines 221-224, after get_account_balance
SufficientBalance == ~(available_margin < manager_max_position_size * Scale)

\* _check_position_limits
_check_position_limits(strategy_id) ==
    Cardinality({id \in DOMAIN active_trades :
                    /\ active_trades[id].strategy_id = strategy_id
                    /\ active_trades[id].status = "OPEN"})
        < max_positions_per_strategy

\* the orchestrator's _calculate_position_size
_calculate_position_size(opp) ==
    LET available_capital ==
            Min(available_margin, manager_max_position_size * Scale)
        stop_loss_distance == Abs(opp.entry_price - opp.stop_loss)
    IN  IF stop_loss_distance = 0 THEN 0
        ELSE Max((available_capital * RiskPerTradePct)
                     \div (100 * stop_loss_distance), 1)

\* mutant: an opportunity whose order raised is not counted
CountSkipped_NotRaised(trades_skipped, outcome) ==
    trades_skipped + (IF outcome = "skipped" THEN 1 ELSE 0)

\* process_market_opportunities lines 137-145: trades_skipped
CountSkipped(trades_skipped, outcome) ==
    trades_skipped + (IF outcome = "executed" THEN 0 ELSE 1)

\* the loop of process_market_opportunities goes on after one opportunity
Advance(r, outcome) ==
    [run EXCEPT ![r] =
        [@ EXCEPT !.log = Append(@, outcome),
                  !.trades_executed =
                      @ + (IF outcome = "executed" THEN 1 ELSE 0),
                  !.trades_skipped = CountSkipped(@, outcome),
                  !.position_size = 0,
                  !.i = @ + 1,
                  !.pc = IF run[r].i = Len(run[r].opps)
                         THEN "finish" ELSE "process"]]

\* _check_trade_exit line 342: the price it takes as current
current_price(trade) ==
    (trade.entry_price * (100 + SimulatedMovePct)) \div 100

\* _check_trade_exit line 345: a move of more than 5%
ExitTriggered(trade) ==
    Abs(current_price(trade) - trade.entry_price) * 100
        > ExitMovePct * trade.entry_price

\* _scan_loop lines 203-205: the scanner publishes a ScanResult
PublishResult ==
    /\ last_scan_time < MaxScans
    /\ last_scan_time' = last_scan_time + 1
    /\ \E opps \in OrchResults :
           current_scan_results' =
               [total_stocks_scanned |-> Len(opps),
                opportunities_found |-> Len(opps),
                opportunities |-> opps,
                market_sentiment |-> _calculate_market_sentiment(opps)]
    /\ ordered' = {}
    /\ run' = [r \in Runners |-> [run[r] EXCEPT !.fresh = FALSE]]
    /\ UNCHANGED <<universe, scan_pc, pending, provided, opportunities,
                   sentiments>>
    /\ UNCHANGED <<strategy_performances, active_trades, runs>>
    /\ UNCHANGED <<brokerVars, stepVars, managerVars, scannerVars, riskVars, auxVars>>

\* process_market_opportunities lines 117-131
BeginRun(r) ==
    /\ run[r].pc = "idle"
    /\ runs < MaxRuns
    /\ runs' = runs + 1
    /\ LET opps == current_scan_results.opportunities
       IN  run' = [run EXCEPT ![r] =
                      IF opps = <<>>
                      THEN [NoRun EXCEPT !.status = "no_opportunities"]
                      ELSE [NoRun EXCEPT !.pc = "process", !.opps = opps,
                                         !.i = 1, !.fresh = TRUE]]
    /\ UNCHANGED <<strategy_performances, active_trades, ordered,
                   last_scan_time>>
    /\ UNCHANGED <<brokerVars, stepVars, managerVars, scannerVars, dataVars,
                   riskVars, auxVars>>

\* _process_opportunity lines 170-191: the checks and the position size
_process_opportunity(r) ==
    /\ run[r].pc = "process"
    /\ LET opp == run[r].opps[run[r].i]
           known == opp.strategy_id \in DOMAIN strategy_performances
           reads == known /\ MeetsHardMinimums(opp)
           position_size == _calculate_position_size(opp)
           go == /\ reads
                 /\ SufficientBalance
                 /\ _check_position_limits(opp.strategy_id)
                 /\ position_size > 0
       IN  /\ IF reads
              THEN /\ peak_portfolio_value' = PeakAfterRead
                   /\ max_drawdown' = DrawdownAfterRead
                   /\ lastOp' =
                          [op |-> "get_account_balance",
                           result |-> "AccountBalance", order |-> None,
                           arg |-> [available_margin |-> available_margin,
                                    used_margin |-> used_margin,
                                    total_margin |-> virtual_balance,
                                    cash_balance |->
                                        _calculate_unrealized_pnl
                                            + (virtual_balance
                                                   - initial_balance)]]
              ELSE UNCHANGED <<peak_portfolio_value, max_drawdown, lastOp>>
           /\ run' = IF go
                     THEN [run EXCEPT ![r].pc = "execute",
                                      ![r].position_size = position_size]
                     ELSE Advance(r, "skipped")
    /\ UNCHANGED <<slippage_factor, virtual_balance, available_margin,
                   used_margin, virtual_positions, virtual_orders,
                   order_history, orders, uuid_count, total_trades,
                   winning_trades, losing_trades, total_commission_paid>>
    /\ UNCHANGED <<strategy_performances, active_trades, runs, ordered,
                   last_scan_time>>
    /\ UNCHANGED <<stepVars, managerVars, scannerVars, dataVars, riskVars, auxVars>>

\* _execute_paper_trade lines 273-320
_execute_paper_trade(r) ==
    /\ run[r].pc = "execute"
    /\ LET opp == run[r].opps[run[r].i]
           order_side == IF opp.signal_type = "BUY" THEN "BUY" ELSE "SELL"
           quantity == run[r].position_size
           order == OrchOrder(opp, order_side, quantity)
           virtual_order_id == uuid_count + 1
       IN  /\ Representable(order)
           /\ place_order(Len(orders) + 1, Append(orders, order),
                          "place_order", "placed",
                          "InsufficientMarginException")
           /\ IF InsufficientMargin(order, available_margin)
              THEN /\ run' = Advance(r, "raised")
                   /\ UNCHANGED <<strategy_performances, active_trades,
                                  ordered>>
              ELSE /\ active_trades' =
                          Put(active_trades, virtual_order_id,
                              StrategyTrade(virtual_order_id, opp,
                                            order_side, quantity))
                   /\ strategy_performances' =
                          [strategy_performances EXCEPT ![opp.strategy_id] =
                              [@ EXCEPT !.total_trades = @ + 1,
                                        !.active_positions = @ + 1]]
                   /\ ordered' = IF run[r].fresh
                                 THEN ordered \cup {run[r].i} ELSE ordered
                   /\ run' = Advance(r, "executed")
    /\ UNCHANGED <<trackVars, runs, last_scan_time>>
    /\ UNCHANGED <<stepVars, managerVars, scannerVars, dataVars, riskVars, auxVars>>

\* the open trades _update_strategy_performance would close
ToClose ==
    {id \in DOMAIN active_trades :
        /\ active_trades[id].status = "OPEN"
        /\ ExitTriggered(active_trades[id])}

\* process_market_opportunities lines 147-156: _update_strategy_performance
\* and the summary.  No trade is to be closed: the move _check_trade_exit
\* computes is 2% for every entry price.
Finish(r) ==
    /\ run[r].pc = "finish"
    /\ ToClose = {}
    /\ run' = [run EXCEPT ![r] =
                  [NoRun EXCEPT !.status = "success",
                                !.trades_executed = run[r].trades_executed,
                                !.trades_skipped = run[r].trades_skipped,
                                !.total_opportunities = Len(run[r].opps)]]
    /\ UNCHANGED <<strategy_performances, active_trades, runs, ordered,
                   last_scan_time>>
    /\ UNCHANGED <<brokerVars, stepVars, managerVars, scannerVars, dataVars,
                   riskVars, auxVars>>

\* one caller of process_market_opportunities at a time
OrchNext ==
    \/ PublishResult
    \/ BeginRun("loop")
    \/ _process_opportunity("loop")
    \/ _execute_paper_trade("loop")
    \/ Finish("loop")

\* the processing loop and a request thread
OrchRaceNext ==
    \/ PublishResult
    \/ \E r \in Runners : BeginRun(r)
    \/ \E r \in Runners : _process_opportunity(r)
    \/ \E r \in Runners : _execute_paper_trade(r)
    \/ \E r \in Runners : Finish(r)

\* __init__ lines 79-91
OrchInit ==
    /\ strategy_performances =
           [id \in StrategyIds |-> [total_trades |-> 0,
                                     active_positions |-> 0]]
    /\ active_trades = <<>>
    /\ run = [r \in Runners |-> NoRun]
    /\ runs = 0
    /\ ordered = {}
    /\ last_scan_time = 0

\* ------------------------------------------------------------ rate limiter
\* DhanMarketDataProvider._rate_limit_check and _handle_rate_limit_error.
\* backoff_multiplier is held at Scale; a decay is taken when its product is
\* exact at Scale.  time_diff is the time since the previous call's check,
\* in seconds: below the delay, within the minute, a minute or more.
TimeDiffs == {0, 30, MinuteSeconds}

\* mutant: the multiplier after an error has no cap
BackoffAfterError_Uncapped(consecutive_429_errors) ==
    Scale + (consecutive_429_errors * BackoffStepTenths * Scale) \div 10

\* _handle_rate_limit_error line 83
BackoffAfterError(consecutive_429_errors) ==
    Min(MaxBackoff * Scale,
        Scale + (consecutive_429_errors * BackoffStepTenths * Scale) \div 10)

\* _rate_limit_check line 69
BackoffAfterDecay(backoff_multiplier) ==
    Max(Scale, (backoff_multiplier * DecayPct) \div 100)

\* _rate_limit_check lines 62-69: does this call decay the backoff
Decays(time_diff) ==
    time_diff >= MinuteSeconds /\ limiter.consecutive_429_errors > 0

\* _rate_limit_check lines 62-75: the request counter before it is counted up
CountAfterWindow(time_diff) ==
    IF time_diff >= MinuteSeconds THEN 0
    ELSE IF limiter.request_count >= max_requests_per_minute THEN 0
    ELSE limiter.request_count

\* a provider call begins: _rate_limit_check
RateLimitCheck ==
    /\ limiter.pc = "idle"
    /\ \E time_diff \in TimeDiffs :
           /\ Decays(time_diff)
                  => ExactRatio(limiter.backoff_multiplier, DecayPct, 100)
           /\ limiter' =
                  [limiter EXCEPT
                      !.pc = "called",
                      !.time_diff = time_diff,
                      !.request_count = CountAfterWindow(time_diff) + 1,
                      !.consecutive_429_errors =
                          IF Decays(time_diff) THEN Max(0, @ - 1) ELSE @,
                      !.backoff_multiplier =
                          IF Decays(time_diff) THEN BackoffAfterDecay(@)
                                               ELSE @]
    /\ UNCHANGED loops
    /\ UNCHANGED <<brokerVars, stepVars, managerVars, scannerVars, dataVars,
                   riskVars, orchVars>>

\* the call returns its data, or fails with an error that is no rate limit
CallReturns ==
    /\ limiter.pc = "called"
    /\ limiter' = [limiter EXCEPT !.pc = "idle", !.last = "returned"]
    /\ UNCHANGED loops
    /\ UNCHANGED <<brokerVars, stepVars, managerVars, scannerVars, dataVars,
                   riskVars, orchVars>>

\* get_ohlcv lines 262-265: the call fails with a rate-limit error;
\* _handle_rate_limit_error
HandleRateLimitError ==
    /\ limiter.pc = "called"
    /\ limiter.errors < MaxErrors
    /\ limiter' =
           [limiter EXCEPT
               !.pc = "idle",
               !.last = "rate_limit",
               !.errors = @ + 1,
               !.consecutive_429_errors = @ + 1,
               !.backoff_multiplier =
                   BackoffAfterError(limiter.consecutive_429_errors + 1)]
    /\ UNCHANGED loops
    /\ UNCHANGED <<brokerVars, stepVars, managerVars, scannerVars, dataVars,
                   riskVars, orchVars>>

LimiterNext ==
    \/ RateLimitCheck
    \/ CallReturns
    \/ HandleRateLimitError

\* DhanMarketDataProvider.__init__ lines 36-40
LimiterInit ==
    limiter = [pc |-> "idle", time_diff |-> 0, request_count |-> 0,
               consecutive_429_errors |-> 0, backoff_multiplier |-> Scale,
               errors |-> 0, last |-> "none"]

\* ---------------------------------------------- exceptions in a scan cycle
\* Where an exception of a scan cycle is raised: nowhere, in the scan of one
\* symbol, or in _perform_market_scan outside the scan of a symbol (as the
\* ValueError of _create_scan_batches).  Both loops run _perform_market_scan.
RaisePoints == {"none", "in_stock", "in_scan"}

\* mutant: no handler inside the cycle, the exception reaches the handler
\* around the loop
CaughtBy_Outermost(loop, raise_point) ==
    IF raise_point = "none" THEN "none"
    ELSE IF loop = "scanner" THEN "_scan_loop" ELSE "_async_scanning_loop"

\* the innermost enclosing handler: _scan_stock_batch (gather with
\* return_exceptions, lines 285-291) or _perform_market_scan (lines 259-269)
CaughtBy(loop, raise_point) ==
    IF raise_point = "none" THEN "none"
    ELSE IF raise_point = "in_stock" THEN "_scan_stock_batch"
    ELSE "_perform_market_scan"

\* what a handler leaves of the cycle: the scan returned a result and the
\* loop sleeps its interval; _scan_loop's handler sleeps 60 s;
\* _perform_single_scan's returns None and the loop sleeps; the handler of
\* _async_scanning_loop is outside the loop, which has ended
AfterCycle(handler) ==
    IF handler = "_async_scanning_loop" THEN "ended"
    ELSE IF handler = "_scan_loop" THEN "retry_sleep"
    ELSE "interval_sleep"

\* MarketScanner.start_scanning: the flag and a new _scan_loop task, which
\* begins its first cycle
ScanLoopStart ==
    /\ ~scanner_is_scanning
    /\ loops.scanner.pc \in {"unstarted", "ended"}
    /\ scanner_is_scanning' = TRUE
    /\ loops' = [loops EXCEPT !.scanner.pc = "cycle",
                              !.scanner.last = "none"]
    /\ UNCHANGED <<scan_task, tasks, ready, stop_pc, stop_awaits, loop_calls>>
    /\ UNCHANGED limiter
    /\ UNCHANGED <<brokerVars, stepVars, managerVars, dataVars, riskVars,
                   orchVars>>

\* MarketScanner.stop_scanning: the flag and task.cancel(); the task is at an
\* await, CancelledError reaches _scan_loop line 214, which breaks
ScanLoopStop ==
    /\ scanner_is_scanning
    /\ scanner_is_scanning' = FALSE
    /\ loops' = [loops EXCEPT !.scanner.pc = "ended", !.scanner.sleep = 0]
    /\ UNCHANGED <<scan_task, tasks, ready, stop_pc, stop_awaits, loop_calls>>
    /\ UNCHANGED limiter
    /\ UNCHANGED <<brokerVars, stepVars, managerVars, dataVars, riskVars,
                   orchVars>>

\* _scan_loop lines 199-218: the rest of a cycle, to its sleep
ScanLoopCycle ==
    /\ loops.scanner.pc = "cycle"
    /\ \E raise_point \in RaisePoints :
           LET after == AfterCycle(CaughtBy("scanner", raise_point))
           IN  loops' = [loops EXCEPT
                            !.scanner.pc = "sleep",
                            !.scanner.last = raise_point,
                            !.scanner.sleep =
                                IF after = "retry_sleep"
                                THEN RetrySeconds
                                ELSE scan_interval_seconds]
    /\ UNCHANGED limiter
    /\ UNCHANGED <<brokerVars, stepVars, managerVars, scannerVars, dataVars,
                   riskVars, orchVars>>

\* the sleep of _scan_loop is over; line 198: while self.is_scanning
ScanLoopWake ==
    /\ loops.scanner.pc = "sleep"
    /\ loops' = [loops EXCEPT
                    !.scanner.pc = IF scanner_is_scanning THEN "cycle"
                                                          ELSE "ended",
                    !.scanner.sleep = 0]
    /\ UNCHANGED limiter
    /\ UNCHANGED <<brokerVars, stepVars, managerVars, scannerVars, dataVars,
                   riskVars, orchVars>>

\* _async_scanning_loop lines 168-185: a scan cycle in which an exception
\* is raised, to the sleep or to the end of the thread
ScanRaises(th) ==
    /\ thread_pc[th] = "scanning"
    /\ \E raise_point \in RaisePoints \ {"none"} :
           LET after == AfterCycle(CaughtBy("manager", raise_point))
           IN  /\ loops' = [loops EXCEPT !.manager.last = raise_point,
                                         !.manager.thread = th]
               /\ IF after = "ended"
                  THEN /\ manager_is_scanning' = FALSE
                       /\ thread_pc' = [thread_pc EXCEPT ![th] = "dead"]
                       /\ UNCHANGED sleep_left
                  ELSE /\ thread_pc' = [thread_pc EXCEPT ![th] = "sleeping"]
                       /\ sleep_left' =
                              [sleep_left EXCEPT ![th] = SleepSeconds]
                       /\ UNCHANGED manager_is_scanning
    /\ UNCHANGED <<scan_thread, handler_pc, join_thread, join_left, requests>>
    /\ UNCHANGED limiter
    /\ UNCHANGED <<brokerVars, stepVars, scannerVars, dataVars, riskVars,
                   orchVars>>

LoopsNext ==
    \/ ScanLoopStart
    \/ ScanLoopStop
    \/ ScanLoopCycle
    \/ ScanLoopWake
    \/ \E th \in Threads : ScanRaises(th)
    \/ ManagerNext

LoopsInit ==
    loops = [scanner |-> [pc |-> "unstarted", sleep |-> 0, last |-> "none"],
             manager |-> [last |-> "none", thread |-> None]]

BrokerInit ==
    /\ slippage_factor \in SlippageFactors
    /\ virtual_balance = initial_balance
    /\ available_margin = initial_balance
    /\ used_margin = 0
    /\ virtual_positions = <<>>
    /\ virtual_orders = <<>>
    /\ order_history = <<>>
    /\ orders = <<>>
    /\ uuid_count = 0
    /\ total_trades = 0
    /\ winning_trades = 0
    /\ losing_trades = 0
    /\ total_commission_paid = 0
    /\ max_drawdown = 0
    /\ peak_portfolio_value = initial_balance
    /\ lastOp = [op |-> "init", result |-> "", order |-> None, arg |-> NoOrder]

StepInit ==
    /\ pc = [t \in Callers |-> "idle"]
    /\ loc = [t \in Callers |-> NoLocals]
    /\ calls = [t \in Callers |-> 0]

Init ==
    /\ BrokerInit /\ StepInit /\ ManagerInit /\ ScannerInit /\ DataInit
    /\ RiskInit /\ OrchInit /\ LimiterInit /\ LoopsInit

Next ==
    \/ PlaceNew
    \/ PlaceAgain
    \/ CancelOrder
    \/ SquareOff

Spec == Init /\ [][Next]_vars

\* concurrent callers, place_order statement by statement
StepSpecInit == Init /\ slippage_factor = DefaultSlippage

SpecSteps == StepSpecInit /\ [][StepNext]_vars

\* one request thread inside place_order while another calls cancel_order
CancelNext ==
    \/ Call("http")
    \/ Check("http")
    \/ Submit("http")
    \/ ReserveAvailLoad("http")
    \/ ReserveAvailStore("http")
    \/ ReserveUsedLoad("http")
    \/ ReserveUsedStore("http")
    \/ Execute("http")
    \/ CommissionUpdate("http")
    \/ BalanceUpdate("http")
    \/ PositionUpdate("http")
    \/ ReleaseUsedLoad("http")
    \/ ReleaseUsedStore("http")
    \/ ReleaseAvailLoad("http")
    \/ ReleaseAvailStore("http")
    \/ TradesUpdate("http")
    \/ History("http")
    \/ CancelCall("orchestrator")

SpecCancel == StepSpecInit /\ [][CancelNext]_vars

\* placements, the read operations and the reset
SpecReads == Init /\ [][ReadsNext]_vars

\* scan cycles over the configured universes
SpecRisk == StepSpecInit /\ [][RiskNext]_vars

SpecOrch == StepSpecInit /\ [][OrchNext]_vars

SpecOrchRace == StepSpecInit /\ [][OrchRaceNext]_vars

SpecLimiter == StepSpecInit /\ [][LimiterNext]_vars

SpecLoops == StepSpecInit /\ [][LoopsNext]_vars

SpecScan == StepSpecInit /\ [][ScanNext]_vars

\* the sentiment of any list of opportunities
SpecSentiment == StepSpecInit /\ [][SentimentNext]_vars

\* the scanner manager and its threads
SpecManager == StepSpecInit /\ [][ManagerNext]_vars

\* the scanner and its event loop
SpecScanner == StepSpecInit /\ [][ScannerNext]_vars

\* get_paper_trading_stats line 373: realized_pnl
StatsRealizedPnl == virtual_balance - initial_balance

\* ------------------------------------------------------------------ claims
LedgerVars == <<virtual_balance, available_margin, used_margin,
                total_commission_paid, total_trades, winning_trades,
                losing_trades>>

\* C1: after every place_order or cancel_order call, accepted or rejected,
\* available_margin + used_margin equals the initial balance.
C1_MarginConservation == available_margin + used_margin = initial_balance

\* an accepted MARKET order with slippage has moved both margin fields
C1_Witness ==
    /\ lastOp.op = "place_order" /\ lastOp.result = "placed"
    /\ Len(order_history) >= 2
    /\ used_margin # 0
    /\ available_margin # initial_balance

\* C2: place_order on an order whose price*quantity*0.20 exceeds
\* available_margin raises InsufficientMargin and leaves the ledger, the open
\* positions, the pending order book, the order history and the order itself
\* unchanged.
C2_RejectionAtomic ==
    [][ ( /\ lastOp'.op = "place_order"
          /\ lastOp' # lastOp
          /\ _calculate_required_margin(lastOp'.arg.price,
                                        lastOp'.arg.quantity) > available_margin )
        => ( /\ lastOp'.result = "InsufficientMarginException"
             /\ UNCHANGED LedgerVars
             /\ UNCHANGED <<virtual_positions, virtual_orders, order_history>>
             /\ orders'[lastOp'.order] = lastOp'.arg
             /\ \A i \in 1..Len(orders) : orders'[i] = orders[i] ) ]_vars

\* an order was rejected after the ledger had already been moved by fills
C2_Witness ==
    /\ lastOp.op = "place_order"
    /\ lastOp.result = "InsufficientMarginException"
    /\ orders[lastOp.order].status = "PENDING"
    /\ Len(order_history) >= 1

\* C4: used_margin >= 0 after every broker operation.
C4_UsedMarginNonNegative == used_margin >= 0

\* C8: with zero slippage, a BUY of q @ p followed by a SELL of q @ p on the
\* same symbol leaves no open position and a realized P&L of -2*commission.
IsRoundTrip ==
    /\ slippage_factor = 0
    /\ Len(order_history) = 2
    /\ order_history[1] # order_history[2]
    /\ LET b == orders[order_history[1]]
           s == orders[order_history[2]]
       IN  /\ b.side = "BUY" /\ s.side = "SELL"
           /\ b.symbol = s.symbol
           /\ b.executed_price = s.executed_price
           /\ b.executed_quantity = s.executed_quantity

C8_RoundTripPnl ==
    IsRoundTrip =>
        /\ orders[order_history[1]].symbol \notin DOMAIN virtual_positions
        /\ StatsRealizedPnl = -2 * commission_per_trade

C8_Witness == IsRoundTrip /\ orders[order_history[1]].order_type = "MARKET"

\* C9: after a BUY of q1 at fill price p1 followed by a BUY of q2 at fill price
\* p2 on the same symbol, the position has quantity q1+q2 and entry price
\* (q1*p1 + q2*p2)/(q1+q2), the Decimal quotient (exact when the division is,
\* else the nearest value at the precision).
IsDoubleBuy ==
    /\ Len(order_history) = 2
    /\ order_history[1] # order_history[2]
    /\ orders[order_history[1]].side = "BUY"
    /\ orders[order_history[2]].side = "BUY"
    /\ orders[order_history[1]].symbol = orders[order_history[2]].symbol

C9_WeightedAverageEntry ==
    IsDoubleBuy =>
        LET b1 == orders[order_history[1]]
            b2 == orders[order_history[2]]
            q == b1.executed_quantity + b2.executed_quantity
            cost == b1.executed_quantity * b1.executed_price
                    + b2.executed_quantity * b2.executed_price
        IN  /\ b1.symbol \in DOMAIN virtual_positions
            /\ virtual_positions[b1.symbol].quantity = q
            /\ 2 * Abs(virtual_positions[b1.symbol].entry_price * q - cost) <= q

\* two BUYs at different fill prices, one with an inexact quotient somewhere
C9_Witness ==
    /\ IsDoubleBuy
    /\ orders[order_history[1]].executed_price
         # orders[order_history[2]].executed_price
    /\ orders[order_history[1]].executed_quantity
         # orders[order_history[2]].executed_quantity

Quiescent == \A t \in Callers : pc[t] = "idle"

\* C3: no order changes status once it is EXECUTED or CANCELLED, including
\* when an order object that was placed before is submitted again, and every
\* order place_order accepted ends in one of those two states.
C3_OrderStateMachine ==
    /\ [][ \A i \in 1..Len(orders) :
              orders[i].status \in {"EXECUTED", "CANCELLED"}
                  => orders'[i].status = orders[i].status ]_vars
    /\ [](Quiescent =>
            \A i \in 1..Len(orders) :
                orders[i].broker_order_id # None
                    => orders[i].status \in {"EXECUTED", "CANCELLED"})

\* C5: when place_order calls of two concurrent callers interleave, margin
\* conservation still holds once both have returned (no update to the margin
\* fields is lost or computed from a stale read).
C5_SerializedLedger ==
    Quiescent => available_margin + used_margin = initial_balance

\* C6: no overlapping scans.  Across any interleaving of start_scanning,
\* stop_scanning and the timers, at most one scan cycle of the manager's
\* scanner is in flight at any time: no two scan threads are inside a scan
\* cycle together.
C6_NoOverlappingScans ==
    Cardinality({th \in Threads : thread_pc[th] = "scanning"}) <= 1

\* C7: graceful stop.  When stop_scanning has returned, every symbol of the
\* batch that the awaited scan task last handed to asyncio.gather has been
\* scanned: no batch in flight was cut short.
C7_GracefulStop ==
    stop_pc = "returned" /\ stop_awaits # None
        => tasks[stop_awaits].scanned = tasks[stop_awaits].size

\* the order object of the fill a step appends to the order history
FilledOrder == orders'[order_history'[Len(order_history')]]

\* a step that executes a SELL order against an open position of its symbol
SellFillStep ==
    /\ Len(order_history') = Len(order_history) + 1
    /\ FilledOrder.status = "EXECUTED"
    /\ FilledOrder.side = "SELL"
    /\ FilledOrder.symbol \in DOMAIN virtual_positions

\* C11: over-closes are rejected.  No SELL whose quantity exceeds the open
\* position quantity of its symbol is executed, whether it comes in through
\* place_order or through square_off_position.
C11_OverCloseRejected ==
    [][ SellFillStep
            => FilledOrder.quantity
                   <= virtual_positions[FilledOrder.symbol].quantity ]_vars

\* a step that is one whole cancel_order call
CancelStep == lastOp'.op = "cancel_order" /\ pc' = pc

\* C12: cancel_order returns False for an id that is not in the order book
\* (never issued, or of an order that left the book when it was executed or
\* cancelled) or whose order is in the book and already EXECUTED or
\* CANCELLED, and then leaves the ledger, the positions, the pending order
\* book, the order history and the orders unchanged.
C12_CancelTerminalIsNoOp ==
    [][ ( /\ CancelStep
          /\ \/ lastOp'.order = None
             \/ lastOp'.arg.status \in {"EXECUTED", "CANCELLED"} )
        => ( /\ lastOp'.result = "False"
             /\ UNCHANGED LedgerVars
             /\ UNCHANGED <<virtual_positions, virtual_orders, order_history,
                            orders>> ) ]_vars

\* cancel_order found an EXECUTED order still in the book and returned False
C12_Witness ==
    /\ lastOp.op = "cancel_order"
    /\ lastOp.result = "False"
    /\ lastOp.order # None
    /\ lastOp.arg.status = "EXECUTED"
    /\ lastOp.arg.broker_order_id \in DOMAIN virtual_orders

\* the margin the place_order call that holds order object i computed at
\* line 91 and reserves at lines 112-113
ReservedFor(i) ==
    LET t == CHOOSE c \in Callers : loc[c].i = i
    IN  loc[t].required_margin

\* C13: cancel_order on a PENDING or SUBMITTED order returns True, sets the
\* status to CANCELLED and releases exactly the margin that its placement
\* reserves, for MARKET as well as for LIMIT orders.
C13_CancelReleasesReservation ==
    [][ ( /\ CancelStep
          /\ lastOp'.order # None
          /\ lastOp'.arg.broker_order_id \in DOMAIN virtual_orders
          /\ lastOp'.arg.status \in {"PENDING", "SUBMITTED"} )
        => ( /\ lastOp'.result = "True"
             /\ orders'[lastOp'.order].status = "CANCELLED"
             /\ available_margin'
                    = available_margin + ReservedFor(lastOp'.order)
             /\ used_margin' = used_margin - ReservedFor(lastOp'.order) )
      ]_vars

\* a step that is one whole call of a read operation
ReadStep ==
    lastOp'.op \in {"get_account_balance", "get_positions",
                    "get_paper_trading_stats"}

\* C14: get_account_balance, get_positions and get_paper_trading_stats are
\* pure reads: a call of any of them changes no ledger field, neither the
\* peak nor the max drawdown, and no field of any position.
C14_ReadsArePure ==
    [][ ReadStep => /\ UNCHANGED LedgerVars
                    /\ UNCHANGED trackVars
                    /\ UNCHANGED virtual_positions ]_vars

\* C15: reset_paper_trading returns the broker to its freshly constructed
\* state, and the final_stats it returns describe the state just before it.
C15_ResetRestoresInitialState ==
    [][ lastOp'.op = "reset_paper_trading"
        => ( /\ virtual_balance' = initial_balance
             /\ available_margin' = initial_balance
             /\ used_margin' = 0
             /\ virtual_positions' = <<>>
             /\ virtual_orders' = <<>>
             /\ order_history' = <<>>
             /\ total_trades' = 0
             /\ winning_trades' = 0
             /\ losing_trades' = 0
             /\ total_commission_paid' = 0
             /\ max_drawdown' = 0
             /\ peak_portfolio_value' = initial_balance
             /\ lastOp'.arg.current_balance = virtual_balance
             /\ lastOp'.arg.available_margin = available_margin
             /\ lastOp'.arg.used_margin = used_margin
             /\ lastOp'.arg.total_trades = total_trades
             /\ lastOp'.arg.winning_trades = winning_trades
             /\ lastOp'.arg.losing_trades = losing_trades
             /\ lastOp'.arg.total_commission_paid = total_commission_paid
             /\ lastOp'.arg.max_drawdown = max_drawdown
             /\ lastOp'.arg.active_positions
                    = Cardinality(DOMAIN virtual_positions)
             /\ lastOp'.arg.realized_pnl = virtual_balance - initial_balance )
      ]_vars

\* a reset after a trade was closed and a drawdown was recorded
C15_Witness ==
    /\ lastOp.op = "reset_paper_trading"
    /\ lastOp.arg.total_trades >= 2
    /\ lastOp.arg.winning_trades + lastOp.arg.losing_trades >= 1
    /\ lastOp.arg.max_drawdown > 0
    /\ lastOp.arg.current_balance # initial_balance
    /\ virtual_balance = initial_balance


\* the number of BUY entries of a list of opportunities
BuyCount(opps) ==
    Cardinality({k \in 1..Len(opps) : opps[k].signal_type = "BUY"})

\* C16: for any list of opportunities, both _calculate_market_sentiment give
\* BULLISH iff count(BUY)/total > 0.6, BEARISH iff count(BUY)/total < 0.4,
\* and NEUTRAL otherwise, the ratios of exactly 0.6, 0.5 and 0.4 and the
\* empty list included; SELL and SHORT both count as non-BUY.
C16_SentimentThresholds ==
    sentiments.scanner # "none" =>
        LET total == Len(sentiments.of)
            buy == BuyCount(sentiments.of)
            bullish == total > 0 /\ 10 * buy > 6 * total
            bearish == total > 0 /\ 10 * buy < 4 * total
        IN  \A s \in {sentiments.scanner, sentiments.manager} :
                /\ s \in {"BULLISH", "BEARISH", "NEUTRAL"}
                /\ (s = "BULLISH") <=> bullish
                /\ (s = "BEARISH") <=> bearish
                /\ (s = "NEUTRAL") <=> (~bullish /\ ~bearish)

\* a list of five with three BUY, a SELL and a SHORT (ratio exactly 0.6) was
\* given to both and both said NEUTRAL
C16_Witness ==
    /\ Len(sentiments.of) = 5
    /\ BuyCount(sentiments.of) = 3
    /\ \E k \in 1..5 : sentiments.of[k].signal_type = "SELL"
    /\ \E k \in 1..5 : sentiments.of[k].signal_type = "SHORT"
    /\ sentiments.scanner = "NEUTRAL"
    /\ sentiments.manager = "NEUTRAL"


\* C17: every ScanResult produced by a scan cycle has market_sentiment in
\* {BULLISH, BEARISH, NEUTRAL}, the cycles over an empty universe and the
\* cycles in which batching or scanning raises included.
C17_SentimentInRange ==
    current_scan_results # NoResult =>
        current_scan_results.market_sentiment
            \in {"BULLISH", "BEARISH", "NEUTRAL"}


\* a scan cycle has run to its end and provided holds what the outside
\* answered during it
CycleCompleted == scan_pc = "idle" /\ provided # <<>>

\* the qualifying signals the strategies gave for one answer
QualifyingSignals(answer) ==
    {answer.signals[id] : id \in StrategyIds}
        \cap {sg \in UNION {StrategyAnswers(id) : id \in StrategyIds} :
                  sg.kind = "signal" /\ sg.confidence_score >= 7}

\* C18: a ScanResult holds at most one Opportunity per symbol, and that
\* opportunity is the highest-confidence signal among all active strategies
\* for the symbol, for every universe list the scanner can be configured
\* with.
C18_OnePerSymbolAndBest ==
    CycleCompleted =>
        LET opps == current_scan_results.opportunities
        IN  /\ \A i, j \in 1..Len(opps) :
                   opps[i].symbol = opps[j].symbol => i = j
            /\ \A i \in 1..Len(opps), k \in 1..Len(provided) :
                   (provided[k].symbol = opps[i].symbol
                       /\ provided[k].answer.data = "ok")
                       => \A sg \in QualifyingSignals(provided[k].answer) :
                              sg.confidence_score <= opps[i].confidence_score


\* C19: every Opportunity in a completed ScanResult has a confidence of
\* min_confidence_score (0.7) at least; none below the threshold reaches
\* what get_current_opportunities returns.
C19_ResultAboveThreshold ==
    \A i \in 1..Len(current_scan_results.opportunities) :
        current_scan_results.opportunities[i].confidence_score >= 7

\* a cycle has completed in which one strategy gave a signal below the
\* threshold and another a qualifying one, and the result holds only the
\* qualifying one
C19_Witness ==
    /\ CycleCompleted
    /\ \E k \in 1..Len(provided) :
           /\ provided[k].answer.data = "ok"
           /\ \E id \in StrategyIds :
                  /\ provided[k].answer.signals[id].kind = "signal"
                  /\ provided[k].answer.signals[id].confidence_score < 7
    /\ current_scan_results.opportunities_found = 1
    /\ current_scan_results.opportunities[1].confidence_score = 7


\* the market-data call or a signal call for the symbol raised
Raised(answer) ==
    \/ answer.data = "raises"
    \/ /\ answer.data = "ok"
       /\ \E id \in StrategyIds : answer.signals[id].kind = "raises"

\* the k-th scanned symbol is in the universe once
ListedOnce(k) ==
    \A j \in 1..Len(provided) :
        provided[j].symbol = provided[k].symbol => j = k

InResult(symbol) ==
    \E i \in 1..Len(current_scan_results.opportunities) :
        current_scan_results.opportunities[i].symbol = symbol

\* C20: if the market-data or signal call for one symbol of a batch raises,
\* the scan cycle still completes, the failing symbol contributes no
\* opportunity, and every other symbol of the batch that yields a
\* qualifying signal still appears in the result.
C20_PartialFailureIsolation ==
    CycleCompleted =>
        /\ current_scan_results.market_sentiment # "UNKNOWN"
        /\ current_scan_results.total_stocks_scanned = Len(provided)
        /\ \A k \in 1..Len(provided) :
               /\ (ListedOnce(k) /\ Raised(provided[k].answer))
                      => ~InResult(provided[k].symbol)
               /\ (~Raised(provided[k].answer)
                       /\ provided[k].answer.data = "ok"
                       /\ QualifyingSignals(provided[k].answer) # {})
                      => InResult(provided[k].symbol)


\* a step that is one whole successful place_order call
PlacedStep ==
    /\ lastOp'.op = "place_order"
    /\ lastOp'.result = "placed"
    /\ Len(order_history') = Len(order_history) + 1
    /\ pc' = pc

\* C29: a successful place_order releases exactly the margin it reserved:
\* available_margin and used_margin after the call equal their values
\* before the call, for MARKET and LIMIT orders and for BUY and SELL.
C29_PlaceOrderRestoresMargin ==
    [][ PlacedStep => /\ available_margin' = available_margin
                      /\ used_margin' = used_margin ]_vars


\* get_account_balance line 291: cash balance plus unrealized P&L
current_portfolio_value == virtual_balance + _calculate_unrealized_pnl

\* C30: peak and drawdown are maintained by order execution: immediately
\* after every successful place_order the peak is at least the cash balance
\* plus the unrealized P&L and max_drawdown is at least the peak less that
\* value, without any read call in between.
C30_PeakAndDrawdownAfterOrder ==
    (lastOp.op = "place_order" /\ lastOp.result = "placed")
        => /\ peak_portfolio_value >= current_portfolio_value
           /\ max_drawdown
                  >= peak_portfolio_value - current_portfolio_value


\* C21: for positive entry_price, stop_loss and available_capital with
\* entry_price # stop_loss, calculate_position_size returns
\* floor(available_capital * risk_per_trade / |entry_price - stop_loss|)
\* clamped into [1, max_position_size].
C21_RiskBasedSizing ==
    ( /\ lastRisk.op = "calculate_position_size"
      /\ lastRisk.entry_price > 0 /\ lastRisk.stop_loss > 0
      /\ lastRisk.available_capital > 0
      /\ lastRisk.entry_price # lastRisk.stop_loss )
        => /\ ~lastRisk.raises
           /\ \E q \in 0..lastRisk.available_capital :
                  \* q is the floor of the quotient
                  /\ q * 100 * Abs(lastRisk.entry_price - lastRisk.stop_loss)
                         <= lastRisk.available_capital * position_risk_percent
                  /\ (q + 1) * 100
                             * Abs(lastRisk.entry_price - lastRisk.stop_loss)
                         > lastRisk.available_capital * position_risk_percent
                  /\ lastRisk.result =
                         (IF q < 1 THEN 1
                          ELSE IF q > max_position_size
                               THEN max_position_size ELSE q)

\* entry 100, stop 98 and a capital of 100000 gave a size within the clamp;
\* entry 100, stop 105 and a capital of 100 gave the minimum of 1
C21_Witness ==
    /\ lastRisk.op = "calculate_position_size"
    /\ ~lastRisk.raises
    /\ \/ /\ lastRisk.entry_price = 100 /\ lastRisk.stop_loss = 98
          /\ lastRisk.available_capital = 100000
          /\ lastRisk.result = 1000
       \/ /\ lastRisk.entry_price = 100 /\ lastRisk.stop_loss = 105
          /\ lastRisk.available_capital = 100
          /\ lastRisk.result = 1


\* a step that is one validate_order call
ValidateStep == lastRisk'.op = "validate_order"

OrderStep(r) ==
    /\ run[r].pc = "execute"
    /\ run'[r].pc # "execute"
    /\ lastOp'.op = "place_order"

\* the opportunity runner r is working on
CurrentOpportunity(r) == run[r].opps[run[r].i]

\* C23: process_market_opportunities never places a broker order for an
\* opportunity with confidence below 0.7 or risk_reward_ratio below 1.5,
\* whatever threshold the scanner that produced the ScanResult used.
C23_HardMinimums ==
    [][ \A r \in Runners :
            OrderStep(r)
                => /\ CurrentOpportunity(r).confidence_score
                       >= HardMinConfidence
                   /\ CurrentOpportunity(r).risk_reward_ratio
                       >= HardMinRiskReward ]_vars

\* a ScanResult with an opportunity below the minimum risk/reward and then
\* one above both minimums: the first was skipped, the second ordered
C23_Witness ==
    /\ run["loop"].pc = "finish"
    /\ run["loop"].log = <<"skipped", "executed">>
    /\ run["loop"].opps[1].risk_reward_ratio < HardMinRiskReward
    /\ run["loop"].opps[1].confidence_score >= HardMinConfidence
    /\ lastOp.op = "place_order" /\ lastOp.result = "placed"


\* the open StrategyTrades of a strategy
OpenTrades(trades, strategy_id) ==
    Cardinality({id \in DOMAIN trades :
                    /\ trades[id].strategy_id = strategy_id
                    /\ trades[id].status = "OPEN"})

\* a step in which runner r takes its opportunity through the checks of
\* _process_opportunity
CheckStep(r) ==
    /\ run[r].pc = "process"
    /\ \/ run'[r].pc = "execute"
       \/ run'[r].i # run[r].i

\* C24: each strategy has at most max_positions_per_strategy open
\* StrategyTrades in every state, and an opportunity whose strategy is at
\* the cap is skipped without a call to the broker.
C24_PositionCap ==
    [][ /\ \A id \in StrategyIds :
              OpenTrades(active_trades', id) <= max_positions_per_strategy
        /\ \A r \in Runners :
              (/\ CheckStep(r)
               /\ OpenTrades(active_trades, CurrentOpportunity(r).strategy_id)
                      >= max_positions_per_strategy)
                  => /\ run'[r].trades_skipped = run[r].trades_skipped + 1
                     /\ run'[r].pc # "execute"
                     /\ orders' = orders
                     /\ order_history' = order_history ]_vars


\* the opportunities runner r has been through that produced no trade
NotExecuted(r) ==
    {k \in 1..Len(run[r].log) : run[r].log[k] # "executed"}

\* C25: an opportunity whose place_order raised is counted as skipped and
\* the opportunities after it are still processed in scan order, so that
\* trades_executed + trades_skipped is the number of opportunities of the
\* ScanResult when the call returns.
C25_PartialFailureTolerance ==
    \A r \in Runners :
        /\ run[r].pc \in {"process", "execute"}
               => /\ run[r].i <= Len(run[r].opps)
                  /\ Len(run[r].log) = run[r].i - 1
        /\ run[r].pc # "idle"
               => /\ run[r].trades_skipped = Cardinality(NotExecuted(r))
                  /\ run[r].trades_executed + run[r].trades_skipped
                         = Len(run[r].log)
        /\ run[r].pc = "finish" => Len(run[r].log) = Len(run[r].opps)
        /\ run[r].status = "success"
               => run[r].trades_executed + run[r].trades_skipped
                      = run[r].total_opportunities

\* the order for the first opportunity raised InsufficientMarginException
\* and the second opportunity was traded
C25_Witness ==
    /\ run["loop"].pc = "finish"
    /\ run["loop"].log = <<"raised", "executed">>
    /\ run["loop"].trades_executed = 1
    /\ run["loop"].trades_skipped = 1


\* C26: the quantity of the order the orchestrator submits for an
\* opportunity is the Risk Manager's calculate_position_size of the
\* opportunity's entry and stop prices and the broker's available_margin,
\* with its clamp to max_position_size.
C26_QuantityFromRiskManager ==
    [][ \A r \in Runners :
            OrderStep(r)
                => LET opp == CurrentOpportunity(r)
                   IN  /\ ~SizeRaises(opp.entry_price, opp.stop_loss,
                                      available_margin)
                       /\ orders'[Len(orders')].quantity
                              = calculate_position_size(opp.entry_price,
                                                        opp.stop_loss,
                                                        available_margin) ]_vars


\* the broker's order a StrategyTrade was opened with
TradeOrder(trade_id) ==
    orders[CHOOSE k \in 1..Len(orders) :
               orders[k].broker_order_id = trade_id]

\* the price the re-evaluation takes as current has reached the target or
\* the stop of the trade
ExitConditionMet(trade_id) ==
    LET trade == active_trades[trade_id]
        price == current_price(trade)
    IN  IF trade.order_side = "BUY"
        THEN \/ price >= TradeOrder(trade_id).target
             \/ price <= TradeOrder(trade_id).stop_loss
        ELSE \/ price <= TradeOrder(trade_id).target
             \/ price >= TradeOrder(trade_id).stop_loss

\* a step in which runner r re-evaluates the open trades and returns
EvaluationStep(r) ==
    /\ run[r].pc = "finish"
    /\ run'[r].pc = "idle"

\* C27: every open StrategyTrade whose exit condition is met at a periodic
\* re-evaluation is closed in that evaluation: it leaves the active set and
\* its strategy's active_positions is decremented.
C27_TradeExit ==
    [][ \A r \in Runners :
            EvaluationStep(r)
                => \A id \in DOMAIN active_trades :
                       (/\ active_trades[id].status = "OPEN"
                        /\ ExitConditionMet(id))
                           => /\ id \notin DOMAIN active_trades'
                              /\ strategy_performances'
                                     [active_trades[id].strategy_id]
                                         .active_positions
                                     < strategy_performances
                                           [active_trades[id].strategy_id]
                                               .active_positions ]_vars


\* runner r works on the ScanResult that is still the published one, and
\* its opportunity has produced an order in an earlier run
AlreadyConsumed(r) ==
    /\ run[r].fresh
    /\ run[r].i \in ordered

\* C28: while the scanner has published no new ScanResult, an opportunity
\* that produced an order in one run of process_market_opportunities
\* produces no order in a later run.
C28_ConsumedAtMostOnce ==
    [][ \A r \in Runners :
            (OrderStep(r) /\ lastOp'.result = "placed")
                => ~AlreadyConsumed(r) ]_vars


\* C31: closing fill.  A SELL of quantity q executed at price P against an
\* open position of quantity Q and entry price E, if q >= Q, removes the
\* position and increments exactly one of winning_trades and losing_trades
\* by the sign of (P - E) * Q - commission; if q < Q it leaves the position
\* with quantity Q - q and the same entry price, adds (P - E) * q -
\* commission to its realized P&L and changes neither counter.
C31_ClosingFill ==
    [][ SellFillStep
            => LET o == FilledOrder
                   pos == virtual_positions[o.symbol]
                   pnl == (o.executed_price - pos.entry_price) * pos.quantity
                          - commission_per_trade
               IN  IF o.executed_quantity >= pos.quantity
                   THEN /\ o.symbol \notin DOMAIN virtual_positions'
                        /\ winning_trades' + losing_trades'
                               = winning_trades + losing_trades + 1
                        /\ pnl > 0 => winning_trades' = winning_trades + 1
                        /\ pnl < 0 => losing_trades' = losing_trades + 1
                   ELSE /\ o.symbol \in DOMAIN virtual_positions'
                        /\ virtual_positions'[o.symbol].quantity
                               = pos.quantity - o.executed_quantity
                        /\ virtual_positions'[o.symbol].entry_price
                               = pos.entry_price
                        /\ virtual_positions'[o.symbol].realized_pnl
                               = pos.realized_pnl
                                 + (o.executed_price - pos.entry_price)
                                       * o.executed_quantity
                                 - commission_per_trade
                        /\ winning_trades' = winning_trades
                        /\ losing_trades' = losing_trades ]_vars

\* three fills: a BUY, a SELL that left part of the position open and a
\* SELL that closed the rest with a profit
C31_Witness ==
    /\ Len(order_history) = 3
    /\ orders[order_history[1]].side = "BUY"
    /\ orders[order_history[2]].side = "SELL"
    /\ orders[order_history[2]].executed_quantity
           < orders[order_history[1]].executed_quantity
    /\ orders[order_history[3]].side = "SELL"
    /\ virtual_positions = <<>>
    /\ winning_trades = 1
    /\ losing_trades = 0


\* C34: backoff_multiplier stays within [1.0, 5.0] after any sequence of
\* provider calls, rate-limit errors and idle periods.
C34_BackoffInRange ==
    /\ limiter.backoff_multiplier >= Scale
    /\ limiter.backoff_multiplier <= MaxBackoff * Scale

\* a ninth consecutive rate-limit error, for which 1.0 + 9 * 0.5 is above
\* the cap, left the multiplier at 5.0
C34_Witness ==
    /\ limiter.last = "rate_limit"
    /\ limiter.consecutive_429_errors = 9
    /\ limiter.backoff_multiplier = MaxBackoff * Scale

\* a step in which a rate-limit error is handled
RateLimitErrorStep ==
    /\ limiter.pc = "called"
    /\ limiter'.last = "rate_limit"
    /\ limiter'.errors = limiter.errors + 1

\* C35: a rate-limit error never lowers the backoff.  After each handled
\* rate-limit error backoff_multiplier is at least its value before the
\* error, and greater than it if that value was below the cap of 5.0.
C35_ErrorNeverLowersBackoff ==
    [][ RateLimitErrorStep
            => /\ limiter'.backoff_multiplier >= limiter.backoff_multiplier
               /\ limiter.backoff_multiplier < MaxBackoff * Scale
                      => limiter'.backoff_multiplier
                             > limiter.backoff_multiplier ]_vars

\* a step in which a provider call begins a minute or more after the check
\* of the previous call, which ended without a rate-limit error
CleanMinuteStep ==
    /\ limiter.pc = "idle"
    /\ limiter'.pc = "called"
    /\ limiter.last = "returned"
    /\ limiter'.time_diff >= MinuteSeconds

\* C36: backoff decay.  When backoff_multiplier is above 1.0 and a full
\* minute has passed with no rate-limit error, the next provider call lowers
\* the multiplier, and never below 1.0.
C36_BackoffDecays ==
    [][ (CleanMinuteStep /\ limiter.backoff_multiplier > Scale)
            => /\ limiter'.backoff_multiplier < limiter.backoff_multiplier
               /\ limiter'.backoff_multiplier >= Scale ]_vars


\* C32: scan-loop resilience.  While a scan loop is running and stop has
\* not been called, an exception raised inside a scan cycle does not end
\* the loop: the cycle goes to the loop's sleep, the sleep to the loop test,
\* and the loop test to another cycle.
C32_ScanLoopResilience ==
    [][ /\ (/\ loops.scanner.pc = "cycle"
            /\ loops'.scanner.pc # "cycle"
            /\ scanner_is_scanning')
               => /\ loops'.scanner.pc = "sleep"
                  /\ loops'.scanner.sleep > 0
        /\ (/\ loops.scanner.pc = "sleep"
            /\ loops'.scanner.pc # "sleep"
            /\ scanner_is_scanning')
               => loops'.scanner.pc = "cycle"
        /\ \A th \in Threads :
               /\ (thread_pc[th] = "scanning" /\ thread_pc'[th] # "scanning")
                      => /\ thread_pc'[th] = "sleeping"
                         /\ sleep_left'[th] > 0
                         /\ manager_is_scanning' = manager_is_scanning
               /\ (thread_pc[th] = "sleeping" /\ thread_pc'[th] # "sleeping")
                      => thread_pc'[th] = "check"
               /\ (/\ thread_pc[th] = "check"
                   /\ thread_pc'[th] # "check"
                   /\ manager_is_scanning)
                      => thread_pc'[th] = "scanning" ]_vars

\* in both loops a cycle raised in _perform_market_scan, and the loop is in
\* a later cycle
C32_Witness ==
    /\ scanner_is_scanning
    /\ loops.scanner.last = "in_scan"
    /\ loops.scanner.pc = "cycle"
    /\ manager_is_scanning
    /\ loops.manager.last = "in_scan"
    /\ thread_pc[loops.manager.thread] = "scanning"


\* the orders of the broker's history that belong to a trade of the strategy
PlacedFor(strategy_id) ==
    {k \in 1..Len(order_history) :
        \E id \in DOMAIN active_trades :
            /\ active_trades[id].strategy_id = strategy_id
            /\ orders[order_history[k]].broker_order_id = id}

AcceptedStep ==
    /\ lastOp'.op \in {"place_order", "square_off_position"}
    /\ lastOp'.order # None
    /\ uuid_count' = uuid_count + 1
    /\ pc' = pc

UnmatchedSellStep ==
    /\ lastOp'.op = "place_order"
    /\ pc' = pc
    /\ lastOp'.arg.side = "SELL"
    /\ lastOp'.arg.symbol \notin DOMAIN virtual_positions
    /\ ~InsufficientMargin(lastOp'.arg, available_margin)

\* C38: a SELL for a symbol with no open position is accepted and executed.
\* It increases virtual_balance by fill_price * quantity - commission,
\* leaves the open positions as they were, with none for its symbol,
\* increments total_trades and changes neither winning_trades nor
\* losing_trades.
C38_UnmatchedSell ==
    [][ UnmatchedSellStep
            => LET o == orders'[lastOp'.order]
               IN  /\ lastOp'.result = "placed"
                   /\ o.status = "EXECUTED"
                   /\ o.executed_price = PlacedPrice(lastOp'.arg)
                   /\ o.executed_quantity = lastOp'.arg.quantity
                   /\ order_history' = Append(order_history, lastOp'.order)
                   /\ virtual_balance' =
                          virtual_balance
                          + o.executed_price * o.executed_quantity
                          - commission_per_trade
                   /\ virtual_positions' = virtual_positions
                   /\ o.symbol \notin DOMAIN virtual_positions'
                   /\ total_trades' = total_trades + 1
                   /\ winning_trades' = winning_trades
                   /\ losing_trades' = losing_trades ]_vars

\* the first order the broker executed was a SELL: the account holds no
\* position and more cash than it started with
C38_Witness ==
    /\ lastOp.op = "place_order"
    /\ lastOp.result = "placed"
    /\ lastOp.arg.side = "SELL"
    /\ Len(order_history) = 1
    /\ virtual_positions = <<>>
    /\ total_trades = 1
    /\ winning_trades + losing_trades = 0
    /\ virtual_balance > initial_balance


\* C39: under the exit rule _check_trade_exit applies (price taken as
\* entry_price * 1.02, exit on a move of more than 5%) no StrategyTrade is
\* ever closed: no open trade meets the rule, every trade stays in
\* active_trades and stays OPEN, no strategy's active_positions ever
\* decreases, and no strategy has more than max_positions_per_strategy
\* orders placed for it.
C39_NoTradeEverCloses ==
    /\ [](/\ ToClose = {}
          /\ \A strategy_id \in StrategyIds :
                 /\ strategy_performances[strategy_id].total_trades
                        <= max_positions_per_strategy
                 /\ Cardinality(PlacedFor(strategy_id))
                        <= max_positions_per_strategy)
    /\ [][ /\ \A id \in DOMAIN active_trades :
                  /\ id \in DOMAIN active_trades'
                  /\ active_trades'[id].status = "OPEN"
           /\ \A strategy_id \in StrategyIds :
                  strategy_performances'[strategy_id].active_positions
                      >= strategy_performances[strategy_id].active_positions
         ]_vars


\* executed_price * executed_quantity summed over the first k orders of the
\* history that are EXECUTED and of the given side
RECURSIVE FillsValue(_, _)
FillsValue(k, side) ==
    IF k = 0 THEN 0
    ELSE LET o == orders[order_history[k]]
         IN  FillsValue(k - 1, side)
             + (IF o.status = "EXECUTED" /\ o.side = side
                THEN o.executed_price * o.executed_quantity ELSE 0)

====
